---- MODULE Spec2Model ----
(***************************************************************************)
(* Model of the news-production pipeline of ForLess01/MultiAgent_AI_R:     *)
(*   app.py            generate_article, run_crew_async (session registry, *)
(*                     result cache, final event)                          *)
(*   src/crew.py       NewsCrew.run (bounded research/validate/compose     *)
(*                     loop), generate_news_article                        *)
(*   src/callbacks.py  RealtimeAgentCallback (progress events),            *)
(*                     get_callback_handler                                *)
(*   ralf_proxy.py     call_ralf_with_retry (bounded retries with          *)
(*                     exponential backoff and jitter)                     *)
(* Texts are sequences of one-character strings, so that upper(), slicing  *)
(* ([:n]) and substring tests ("x" in text) are computed as Python does.   *)
(* Accented letters of the source's literals are written unaccented.       *)
(***************************************************************************)
EXTENDS Integers, Sequences, FiniteSets, TLC

VARIABLES
    active_sessions,    \* app.py:76   dict session_id -> session info dict
    results_cache,      \* app.py:79   dict session_id -> result dict
    socketio_instance,  \* callbacks.py:26  the injected transport, or None
    global_callback,    \* callbacks.py:350 _global_callback: 0 = None, else the object
    callback_objs,      \* the RealtimeAgentCallback objects, by the thread that made them
    frame,              \* per session thread: locals of run_crew_async / NewsCrew.run
    events,             \* per session thread: the socketio emits it made, in order
    calls,              \* per session thread: the worker invocations (kickoff), in order
    ralf,               \* ralf_proxy.py: the locals of a call_ralf_with_retry invocation
    clients,            \* per connected Socket.IO client: its rooms and what it received
    queries,            \* per GET /api/result request: the locals of get_result, its response
    submissions,        \* per POST /api/generate request: its body and its response
    stream,             \* ralf_proxy.py: a streaming response of chat_completions
    search              \* tools.py: the locals of a NewsSearchTool._run invocation

vars == <<active_sessions, results_cache, socketio_instance, global_callback,
          callback_objs, frame, events, calls, ralf, clients, queries, submissions,
          stream, search>>

\* the clients of the web application and the requests they have in progress
client_vars == <<clients, queries, submissions>>

\* the state of the proxy process (ralf_proxy.py), which the web application
\* (app.py) does not touch
proxy_vars == <<ralf, stream>>

\* the state of the search tool, which a worker calls during its kickoff
tool_vars == <<search>>

\* the state of the web application, which the proxy process does not touch
app_vars == <<active_sessions, results_cache, socketio_instance, global_callback,
              callback_objs, frame, events, calls, clients, queries, submissions>>

----------------------------------------------------------------------------
(* Bounds of the model *)

\* number of submissions the model accepts (session ids are 1..MaxSessions)
MaxSessions == 1

\* number of text fragments of a Validator output in SpecVerdict
MaxFragments == 3

\* largest attempt index for which the backoff delay is computed
MaxAttemptIndex == 7

\* number of Socket.IO clients that connect
MaxClients == 1

\* number of join_session messages a client sends
MaxJoins == 1

\* number of GET /api/result requests
MaxQueries == 1

\* number of sessions that start concurrently in SpecStart
MaxStarts == 2

\* POST /api/generate requests that are rejected
MaxRejects == 2

\* lines of an upstream response that is streamed
MaxLines == 3

\* runs of generate_news_article that a script makes one after the other
MaxRuns == 2

\* values of RALF_MAX_RETRIES from 0 up to this one, besides the default
MaxConfiguredRetries == 2

\* items in the 'results' list of an answer of the search backend
MaxItems == 2

----------------------------------------------------------------------------
(* Program constants *)

MAX_ITERATIONS == 3
TaskPreviewLen == 200
OutputPreviewLen == 400
BacktrackPreviewLen == 300
ResultPreviewLen == 500
FeedbackLen == 200

\* ralf_proxy.py (times in milliseconds, the jitter range in thousandths)
MAX_RETRIES == 5
BASE_DELAY == 2000
MAX_DELAY == 60000
JITTER_RANGE == 500
MinDelay == 500
ErrorTextLen == 200
ConnectionStatus == 503

----------------------------------------------------------------------------
(* Python text and dict primitives *)

EmptyText == << >>

\* text[:n]
Take(text, n) == SubSeq(text, 1, IF Len(text) < n THEN Len(text) ELSE n)

\* token in text
Contains(text, token) ==
    \E i \in 0..(Len(text) - Len(token)) :
        SubSeq(text, i + 1, i + Len(token)) = token

LowerLetters ==
    <<"a", "b", "c", "d", "e", "f", "g", "h", "i", "j", "k", "l", "m",
      "n", "o", "p", "q", "r", "s", "t", "u", "v", "w", "x", "y", "z">>
UpperLetters ==
    <<"A", "B", "C", "D", "E", "F", "G", "H", "I", "J", "K", "L", "M",
      "N", "O", "P", "Q", "R", "S", "T", "U", "V", "W", "X", "Y", "Z">>

UpperChar(c) ==
    IF \E i \in 1..26 : LowerLetters[i] = c
    THEN UpperLetters[CHOOSE i \in 1..26 : LowerLetters[i] = c]
    ELSE c

\* text.upper()
Upper(text) == [i \in 1..Len(text) |-> UpperChar(text[i])]

Whitespace == {" ", "\n", "\t"}

RECURSIVE LStrip(_)
LStrip(text) ==
    IF text # << >> /\ Head(text) \in Whitespace THEN LStrip(Tail(text)) ELSE text

RECURSIVE RStrip(_)
RStrip(text) ==
    IF text # << >> /\ text[Len(text)] \in Whitespace
    THEN RStrip(SubSeq(text, 1, Len(text) - 1))
    ELSE text

\* text.strip()
Strip(text) == RStrip(LStrip(text))

Digits == <<"0", "1", "2", "3", "4", "5", "6", "7", "8", "9">>
\* str(n) for a one-digit n
DigitStr(n) == <<Digits[n + 1]>>

Pad(c, n) == [i \in 1..n |-> c]

\* d[k] = v on a dict (also used for d.update of one key)
DictSet(d, k, v) == [x \in (DOMAIN d) \cup {k} |-> IF x = k THEN v ELSE d[x]]

\* d.get(k) is truthy
Truthy(d, k) == k \in DOMAIN d /\ d[k] # EmptyText

----------------------------------------------------------------------------
(* Literals of the source *)

APROBADO == <<"A", "P", "R", "O", "B", "A", "D", "O">>
RECHAZADO == <<"R", "E", "C", "H", "A", "Z", "A", "D", "O">>

Investigador == <<"I", "n", "v", "e", "s", "t", "i", "g", "a", "d", "o", "r", " ", "d", "e", " ", "N", "o", "t", "i", "c", "i", "a", "s">>
Analista == <<"A", "n", "a", "l", "i", "s", "t", "a", " ", "d", "e", " ", "S", "e", "s", "g", "o", "s", " ", "y", " ", "F", "a", "c", "t", "-", "C", "h", "e", "c", "k", "e", "r">>
Redactor == <<"R", "e", "d", "a", "c", "t", "o", "r", " ", "S", "e", "n", "i", "o", "r">>
SystemAgent == <<"S", "y", "s", "t", "e", "m">>
NoAgent == << >>

InvestigandoPrefix == <<"I", "n", "v", "e", "s", "t", "i", "g", "a", "n", "d", "o", ":", " ">>
AnalizandoReporte == <<"A", "n", "a", "l", "i", "z", "a", "n", "d", "o", " ", "r", "e", "p", "o", "r", "t", "e", ".", ".", ".">>
EscribiendoArticulo == <<"E", "s", "c", "r", "i", "b", "i", "e", "n", "d", "o", " ", "a", "r", "t", "i", "c", "u", "l", "o", " ", "f", "i", "n", "a", "l", ".", ".", ".">>
ArticuloFinalizado == <<"A", "r", "t", "i", "c", "u", "l", "o", " ", "f", "i", "n", "a", "l", "i", "z", "a", "d", "o">>

RefinamientoOpen == <<" ", "(", "R", "E", "F", "I", "N", "A", "M", "I", "E", "N", "T", "O", ":", " ">>
RefinamientoClose == <<")">>

\* f"Contenido rechazado despues de {MAX_ITERATIONS} intentos. Ultimo feedback: "
RechazadoErrorPrefix ==
    <<"C", "o", "n", "t", "e", "n", "i", "d", "o", " ", "r", "e", "c", "h", "a", "z", "a", "d", "o", " ", "d", "e", "s", "p", "u", "e", "s", " ", "d", "e", " ">>
    \o DigitStr(MAX_ITERATIONS)
    \o <<" ", "i", "n", "t", "e", "n", "t", "o", "s", ".", " ", "U", "l", "t", "i", "m", "o", " ", "f", "e", "e", "d", "b", "a", "c", "k", ":", " ">>

\* f"No se logro aprobacion despues de {MAX_ITERATIONS} iteraciones"
NoAprobacionError ==
    <<"N", "o", " ", "s", "e", " ", "l", "o", "g", "r", "o", " ", "a", "p", "r", "o", "b", "a", "c", "i", "o", "n", " ", "d", "e", "s", "p", "u", "e", "s", " ", "d", "e", " ">>
    \o DigitStr(MAX_ITERATIONS)
    \o <<" ", "i", "t", "e", "r", "a", "c", "i", "o", "n", "e", "s">>

CrewErrorPrefix == <<"E", "r", "r", "o", "r", " ", "d", "u", "r", "a", "n", "t", "e", " ", "e", "j", "e", "c", "u", "c", "i", "o", "n", " ", "d", "e", " ", "c", "r", "e", "w", ":", " ">>
AsyncErrorPrefix == <<"E", "r", "r", "o", "r", " ", "e", "n", " ", "c", "r", "e", "w", " ", "a", "s", "y", "n", "c", ":", " ">>

----------------------------------------------------------------------------
(* Inputs: what callers submit, what workers return, how calls fail *)

\* request bodies' "topic" values (stripped by generate_article)
RawTopics == { <<" ", "I", "A", " ">> }

\* topics that are empty after strip()
BlankTopics == { << >>, <<" ", "\t", " ">> }

\* what flask_request.get_json() finds in a POST /api/generate: whether the
\* request has a JSON body, whether the body has the key "topic", whether its
\* value is a string, and the string
NoJson == [json |-> FALSE, has_topic |-> FALSE, is_text |-> FALSE, topic |-> << >>]
JsonNoTopic == [json |-> TRUE, has_topic |-> FALSE, is_text |-> FALSE, topic |-> << >>]
JsonTopicNotText == [json |-> TRUE, has_topic |-> TRUE, is_text |-> FALSE, topic |-> << >>]
JsonWith(topic) == [json |-> TRUE, has_topic |-> TRUE, is_text |-> TRUE, topic |-> topic]

Bodies ==
    {NoJson, JsonNoTopic, JsonTopicNotText}
        \cup {JsonWith(topic) : topic \in RawTopics \cup BlankTopics}

\* what investigation_crew.kickoff() returns (as str)
ResearchOutputs == { <<"i", "n", "f", "o", "r", "m", "e", ":", " ", "I", "A", " ", "a", "v", "a", "n", "z", "a">> }

VeredictoAprobado == <<"V", "e", "r", "e", "d", "i", "c", "t", "o", ":", " ", "a", "p", "r", "o", "b", "a", "d", "o">>
\* longer than every excerpt length (200, 300, 400), with a tail that shows where it is cut
VeredictoRechazado ==
    <<"V", "E", "R", "E", "D", "I", "C", "T", "O", ":", " ", "R", "E", "C", "H", "A", "Z", "A", "D", "O", ",", " ", "f", "a", "l", "t", "a", " ", "f", "u", "e", "n", "t", "e", " ", "o", "f", "i", "c", "i", "a", "l", " ">>
    \o Pad("x", 160) \o Pad("y", 100) \o Pad("z", 100)
SinVeredicto == <<"s", "i", "n", " ", "v", "e", "r", "e", "d", "i", "c", "t", "o", " ", "c", "l", "a", "r", "o">>

\* what analysis_crew.kickoff() returns (as str)
ValidatorOutputs == {VeredictoAprobado, VeredictoRechazado, SinVeredicto}

Articulo == <<"#", " ", "I", "A", " ", " ", "*", "*", "h", "o", "y", "*", "*", "a", "v", "a", "n", "z", "a">>

\* what writing_crew.kickoff() returns (as str)
ComposerOutputs == {Articulo, EmptyText}

\* str(e) of an exception raised by a worker invocation
WorkerFailures == { <<"t", "i", "m", "e", "o", "u", "t">> }
\* str(e) of an exception raised while NewsCrew is constructed
InitFailures == { <<"l", "l", "m", " ", "c", "o", "n", "f", "i", "g">> }
\* str(e) of an exception raised by socketio.emit
EmitFailures == { <<"e", "m", "i", "t", " ", "f", "a", "i", "l", "e", "d">> }
\* str(e) of an exception raised by format_news_article
FormatFailures == { <<"r", "e">> }

----------------------------------------------------------------------------
(* crew.py: verdict classification and the dicts NewsCrew.run returns *)

\* Verdict without the upper() of crew.py:866
Verdict_caseSensitive(analysis_result) ==
    IF Contains(analysis_result, APROBADO) /\ ~Contains(analysis_result, RECHAZADO)
    THEN "Approved"
    ELSE IF Contains(analysis_result, RECHAZADO)
         THEN "Rejected"
         ELSE "Ambiguous"

\* crew.py:866-946: analysis_text = str(analysis_result).upper(), then if / elif / else
Verdict(analysis_result) ==
    LET analysis_text == Upper(analysis_result) IN
    IF Contains(analysis_text, APROBADO) /\ ~Contains(analysis_text, RECHAZADO)
    THEN "Approved"
    ELSE IF Contains(analysis_text, RECHAZADO)
         THEN "Rejected"
         ELSE "Ambiguous"

\* RefinedTopic without the [:200] of crew.py:934
RefinedTopic_uncut(topic, analysis_result) ==
    topic \o RefinamientoOpen \o analysis_result \o RefinamientoClose

\* crew.py:934-935: feedback_text = str(analysis_result)[:200]; topic = f"{topic} (REFINAMIENTO: {feedback_text})"
RefinedTopic(topic, analysis_result) ==
    topic \o RefinamientoOpen \o Take(analysis_result, FeedbackLen) \o RefinamientoClose

\* crew.py:913-919
SuccessResult(topic, final_article, iteration, session_id) ==
    [status |-> "success", topic |-> topic, article |-> final_article,
     iterations |-> iteration, session_id |-> session_id]

\* crew.py:940-945, 953-958, 965-970
ErrorResult(topic, error, session_id) ==
    [status |-> "error", topic |-> topic, error |-> error, session_id |-> session_id]

\* crew.py:943
RejectedError(analysis_result) == RechazadoErrorPrefix \o analysis_result

\* CrewErrorMsg without the str(e) of crew.py:961
CrewErrorMsg_dropsCause(e) == CrewErrorPrefix

\* crew.py:961
CrewErrorMsg(e) == CrewErrorPrefix \o e

\* app.py:340
AsyncErrorMsg(e) == AsyncErrorPrefix \o e

----------------------------------------------------------------------------
(* callbacks.py: RealtimeAgentCallback *)

\* callbacks.py:65-76
NewCallback(session_id) ==
    [session_id |-> session_id, current_agent |-> NoAgent, task_counter |-> 0]

\* callbacks.py:364: the factory makes a new object unless the global one is of this session
NeedsNewCallback(session_id) ==
    \/ global_callback = 0
    \/ callback_objs[global_callback].session_id # session_id

\* callbacks.py:26: socketio_instance = None until set_socketio is called
NoTransport == "None"

\* an injected transport whose emit works
Connected == "connected"

\* an injected transport whose emit raises (the server or its message queue is
\* gone)
Broken == "broken"

\* callbacks.py:86-88, 98-103: _emit hands the event on when there is a transport
\* and its emit does not raise; otherwise it logs and returns
Emits == socketio_instance = Connected

\* callbacks.py:78-103: _emit of thread s through callback object cb. Nothing is
\* emitted without a transport, and an exception of emit is caught and logged;
\* the payload carries the callback's session id and the emit names no room
\* (namespace-wide).
EmitLog(s, cb, event_name, data) ==
    IF ~Emits
    THEN events
    ELSE [events EXCEPT ![s] =
            Append(@, [name |-> event_name, room |-> 0,
                       payload |-> DictSet(data, "session_id", callback_objs[cb].session_id)])]

\* What socketio.emit hands to the connected clients: an emit that names no room
\* (room 0) goes to every client of the namespace, an emit to a room goes to the
\* clients that joined it. An inbox entry names the thread that published the
\* event and the event's position in that thread's log.
Deliver(s, event_name, room) ==
    [c \in DOMAIN clients |->
        IF room = 0 \/ room \in clients[c].rooms
        THEN [clients[c] EXCEPT !.inbox =
                Append(@, [name |-> event_name, session |-> s,
                           index |-> Len(events[s]) + 1])]
        ELSE clients[c]]

\* callbacks.py:100: socketio_instance.emit(event_name, payload, namespace="/agents")
EmitDeliver(s, event_name) ==
    IF ~Emits THEN clients ELSE Deliver(s, event_name, 0)

\* callbacks.py:143-162
on_agent_start(s, cb, agent_name, task_description) ==
    /\ callback_objs' = [callback_objs EXCEPT ![cb].current_agent = agent_name,
                                               ![cb].task_counter = @ + 1]
    /\ clients' = EmitDeliver(s, "agent_start")
    /\ events' = EmitLog(s, cb, "agent_start",
                         [agent |-> agent_name,
                          task |-> Take(task_description, TaskPreviewLen),
                          task_number |-> callback_objs[cb].task_counter + 1])

\* callbacks.py:181-194
on_agent_finish(s, cb, agent_name, output) ==
    /\ clients' = EmitDeliver(s, "agent_finish")
    /\ events' = EmitLog(s, cb, "agent_finish",
                         [agent |-> agent_name, output |-> Take(output, OutputPreviewLen)])
    /\ callback_objs' = [callback_objs EXCEPT ![cb].current_agent = NoAgent]

\* callbacks.py:196-212
on_backtracking(s, cb, feedback) ==
    /\ clients' = EmitDeliver(s, "backtracking")
    /\ events' = EmitLog(s, cb, "backtracking",
                         [agent |-> Analista, target |-> Investigador,
                          feedback |-> Take(feedback, BacktrackPreviewLen)])
    /\ UNCHANGED callback_objs

\* callbacks.py:126-137
on_crew_finish(s, cb, result) ==
    /\ clients' = EmitDeliver(s, "crew_finish")
    /\ events' = EmitLog(s, cb, "crew_finish",
                         [result |-> Take(result, ResultPreviewLen)])
    /\ UNCHANGED callback_objs

\* callbacks.py:288-303 (agent_name is not passed by NewsCrew.run)
on_error(s, cb, error_message) ==
    /\ clients' = EmitDeliver(s, "error")
    /\ events' = EmitLog(s, cb, "error",
                         [agent |-> IF callback_objs[cb].current_agent # NoAgent
                                    THEN callback_objs[cb].current_agent
                                    ELSE SystemAgent,
                          error |-> error_message])
    /\ UNCHANGED callback_objs

----------------------------------------------------------------------------
(* formatting.py *)

IsLower(c) == \E i \in 1..26 : LowerLetters[i] = c
IsUpper(c) == \E i \in 1..26 : UpperLetters[i] = c
IsDigit(c) == \E i \in 1..10 : Digits[i] = c
\* c.isalnum() for a one-character string c ("" is not alphanumeric)
IsAlnum(c) == IsLower(c) \/ IsUpper(c) \/ IsDigit(c)

NL == "\n"
Break == <<NL, NL>>
BoldMark == <<"*", "*">>

\* the number of characters c that text holds from position i on
RECURSIVE RunLen(_, _, _)
RunLen(text, i, c) ==
    IF i <= Len(text) /\ text[i] = c THEN 1 + RunLen(text, i + 1, c) ELSE 0

\* the number of whitespace characters that text holds from position i on
RECURSIVE SpaceRunLen(_, _)
SpaceRunLen(text, i) ==
    IF i <= Len(text) /\ text[i] \in Whitespace THEN 1 + SpaceRunLen(text, i + 1) ELSE 0

HasAt(text, i, token) ==
    i >= 1 /\ i + Len(token) - 1 <= Len(text) /\ SubSeq(text, i, i + Len(token) - 1) = token

\* formatting.py:46: re.sub(r"\s+", " ", raw_text)
RECURSIVE NormalizeSpaces(_, _)
NormalizeSpaces(text, i) ==
    IF i > Len(text) THEN << >>
    ELSE IF text[i] \in Whitespace
         THEN <<" ">> \o NormalizeSpaces(text, i + SpaceRunLen(text, i))
         ELSE <<text[i]>> \o NormalizeSpaces(text, i + 1)

\* The length of the match of a pattern's second group at position i of text (0: no
\* match). The groups are those of formatting.py:49, 52, 55, 56 and 62.
GroupLen(group, text, i) ==
    CASE group = "heading" ->      \* #+ followed by a space
            LET n == RunLen(text, i, "#") IN
            IF n >= 1 /\ HasAt(text, i + n, <<" ">>) THEN n + 1 ELSE 0
      [] group = "quote" ->        \* "> "
            IF HasAt(text, i, <<">", " ">>) THEN 2 ELSE 0
      [] group = "boldItem" ->     \* "- **"
            IF HasAt(text, i, <<"-", " ", "*", "*">>) THEN 4 ELSE 0
      [] group = "item" ->         \* "- " and a capital letter
            IF HasAt(text, i, <<"-", " ">>) /\ i + 2 <= Len(text) /\ IsUpper(text[i + 2])
            THEN 3 ELSE 0
      [] group = "rule" ->         \* "---"
            IF HasAt(text, i, <<"-", "-", "-">>) THEN 3 ELSE 0

\* re.sub(r"([^\n])(<group>)", r"\1\n\n\2", text): leftmost matches, left to right,
\* none overlapping another
RECURSIVE BreakBefore(_, _, _)
BreakBefore(group, text, i) ==
    IF i > Len(text) THEN << >>
    ELSE LET n == GroupLen(group, text, i + 1) IN
         IF text[i] # NL /\ n > 0
         THEN <<text[i]>> \o Break \o SubSeq(text, i + 1, i + n)
              \o BreakBefore(group, text, i + n + 1)
         ELSE <<text[i]>> \o BreakBefore(group, text, i + 1)

\* formatting.py:63: re.sub(r"(---)([^\n])", r"\1\n\n\2", text)
RECURSIVE BreakAfterRule(_, _)
BreakAfterRule(text, i) ==
    IF i > Len(text) THEN << >>
    ELSE IF HasAt(text, i, <<"-", "-", "-">>) /\ i + 3 <= Len(text) /\ text[i + 3] # NL
         THEN <<"-", "-", "-">> \o Break \o <<text[i + 3]>> \o BreakAfterRule(text, i + 4)
         ELSE <<text[i]>> \o BreakAfterRule(text, i + 1)

\* formatting.py:66: re.sub(r"([a-z])([A-Z])", r"\1\n\n\2", text)
RECURSIVE BreakCamelCase(_, _)
BreakCamelCase(text, i) ==
    IF i > Len(text) THEN << >>
    ELSE IF i + 1 <= Len(text) /\ IsLower(text[i]) /\ IsUpper(text[i + 1])
         THEN <<text[i]>> \o Break \o <<text[i + 1]>> \o BreakCamelCase(text, i + 2)
         ELSE <<text[i]>> \o BreakCamelCase(text, i + 1)

\* formatting.py:69: re.sub(r"\n{3,}", "\n\n", text)
RECURSIVE SqueezeBreaks(_, _)
SqueezeBreaks(text, i) ==
    IF i > Len(text) THEN << >>
    ELSE LET n == RunLen(text, i, NL) IN
         IF n >= 3
         THEN Break \o SqueezeBreaks(text, i + n)
         ELSE <<text[i]>> \o SqueezeBreaks(text, i + 1)

\* text.split("**"): the parts between the marks, from position i on
RECURSIVE SplitBold(_, _, _)
SplitBold(text, i, part) ==
    IF i > Len(text) THEN <<part>>
    ELSE IF HasAt(text, i, BoldMark)
         THEN <<part>> \o SplitBold(text, i + 2, << >>)
         ELSE SplitBold(text, i + 1, Append(part, text[i]))

\* formatting.py:13-36: the parts joined again, each mark with its break
RECURSIVE JoinBold(_, _)
JoinBold(parts, i) ==
    IF i > Len(parts) THEN << >>
    ELSE IF i = Len(parts) THEN parts[i]
    ELSE LET part == parts[i]
             prev_alnum == part # << >> /\ IsAlnum(part[Len(part)])
             next_alnum == parts[i + 1] # << >> /\ IsAlnum(parts[i + 1][1])
             sep == IF (i - 1) % 2 = 0
                    THEN (IF prev_alnum THEN Break \o BoldMark ELSE BoldMark)
                    ELSE (IF next_alnum THEN BoldMark \o Break ELSE BoldMark)
         IN  part \o sep \o JoinBold(parts, i + 1)

\* formatting.py:4-36
fix_bold_spacing(text) ==
    LET parts == SplitBold(text, 1, << >>) IN
    IF Len(parts) < 2 THEN text ELSE JoinBold(parts, 1)

\* formatting.py:39-71
format_news_article(raw_text) ==
    IF raw_text = EmptyText THEN EmptyText
    ELSE LET f0 == NormalizeSpaces(raw_text, 1)
             f1 == BreakBefore("heading", f0, 1)
             f2 == BreakBefore("quote", f1, 1)
             f3 == BreakBefore("boldItem", f2, 1)
             f4 == BreakBefore("item", f3, 1)
             f5 == fix_bold_spacing(f4)
             f6 == BreakBefore("rule", f5, 1)
             f7 == BreakAfterRule(f6, 1)
             f8 == BreakCamelCase(f7, 1)
         IN  SqueezeBreaks(f8, 1)

----------------------------------------------------------------------------
(* ralf_proxy.py: call_ralf_with_retry.  Times are in milliseconds; the     *)
(* jitter range and the random draw are in thousandths.                     *)

RECURSIVE IntStr(_)
\* str(n) for n >= 0
IntStr(n) == IF n < 10 THEN DigitStr(n) ELSE IntStr(n \div 10) \o DigitStr(n % 10)

RECURSIVE Pow2(_)
\* 2**n
Pow2(n) == IF n = 0 THEN 1 ELSE 2 * Pow2(n - 1)

Min(a, b) == IF a <= b THEN a ELSE b
Max(a, b) == IF a >= b THEN a ELSE b

ClienteErrorPrefix == <<"E", "r", "r", "o", "r", " ", "c", "l", "i", "e", "n", "t", "e", " ", "R", "A", "L", "F", ":", " ">>
TemporalErrorPrefix == <<"E", "r", "r", "o", "r", " ", "t", "e", "m", "p", "o", "r", "a", "l", " ", "R", "A", "L", "F", ":", " ">>
ConexionErrorPrefix == <<"E", "x", "c", "e", "p", "c", "i", "o", "n", " ", "c", "o", "n", "e", "x", "i", "o", "n", " ", "R", "A", "L", "F", ":", " ">>
StatusSep == <<" ", "-", " ">>

\* the status codes the upstream service answers with
UpstreamStatuses == {200, 304, 404, 429, 500}

\* the body of the answer to the n-th request: longer than the excerpt of
\* ralf_proxy.py:69, and different for every request
UpstreamBody(n) == IntStr(n) \o <<" ">> \o Pad("x", ErrorTextLen)

\* what requests.post does on the n-th request: it returns a response, or raises
\* a requests.RequestException (text is then str(e))
UpstreamOutcomes(n) ==
    { [raised |-> FALSE, status_code |-> c, text |-> UpstreamBody(n)] : c \in UpstreamStatuses }
    \cup { [raised |-> TRUE, status_code |-> 0,
            text |-> <<"t", "i", "m", "e", "o", "u", "t", " ">> \o IntStr(n)] }

\* the values of random.random(), which lies in [0, 1), in thousandths
RandomDraws == {0, 999}

\* None, where a response is expected
NoResponse == [raised |-> FALSE, status_code |-> 0, text |-> EmptyText]
\* None, where an error dict is expected
NoError == [error |-> EmptyText, status_code |-> 0]

\* ralf_proxy.py:56
IsSuccess(status_code) == 200 <= status_code /\ status_code < 300

\* IsClientError that takes no 404 for a client error
IsClientError_not404(status_code) ==
    400 <= status_code /\ status_code < 500 /\ status_code # 429 /\ status_code # 404

\* ralf_proxy.py:60
IsClientError(status_code) ==
    400 <= status_code /\ status_code < 500 /\ status_code # 429

\* ralf_proxy.py:61-65
ClientError(response) ==
    [error |-> ClienteErrorPrefix \o IntStr(response.status_code) \o StatusSep \o response.text,
     status_code |-> response.status_code]

\* ralf_proxy.py:68-72
TemporalError(response) ==
    [error |-> TemporalErrorPrefix \o IntStr(response.status_code) \o StatusSep
               \o Take(response.text, ErrorTextLen),
     status_code |-> response.status_code]

\* ralf_proxy.py:75-77
ConnectionError(e) ==
    [error |-> ConexionErrorPrefix \o e, status_code |-> ConnectionStatus]

\* LastError that keeps the error of the first failed attempt
LastError_keepsFirst(last_error, error) ==
    IF last_error = NoError THEN error ELSE last_error

\* ralf_proxy.py:72, 77: last_error = {...}
LastError(last_error, error) == error

\* Delay without the cap of ralf_proxy.py:81
Delay_uncapped(attempt) == BASE_DELAY * Pow2(attempt)

\* ralf_proxy.py:81
Delay(attempt) == Min(MAX_DELAY, BASE_DELAY * Pow2(attempt))

\* ralf_proxy.py:82: delay * JITTER_RANGE * (random.random() * 2 - 1)
\* (the division by the first scale of a thousand is exact: delays are whole seconds)
Jitter(delay, r) == (((delay * JITTER_RANGE) \div 1000) * (2 * r - 1000)) \div 1000

\* ralf_proxy.py:83
FinalDelay(attempt, r) ==
    Max(MinDelay, Delay(attempt) + Jitter(Delay(attempt), r))

\* the locals of call_ralf_with_retry before it is called, and the record of what
\* it did: the requests it sent and the delays it slept, in order
\* ralf_proxy.py:31: MAX_RETRIES = int(os.getenv("RALF_MAX_RETRIES", "5")) is read
\* once, when the process starts
NewRalfCallWith(max_retries) ==
    [pc |-> "idle", max_retries |-> max_retries, attempt |-> 0,
     last_error |-> NoError, response |-> NoResponse, error |-> NoError,
     log |-> << >>]

\* a process started without RALF_MAX_RETRIES in its environment
NewRalfCall == NewRalfCallWith(MAX_RETRIES)

\* the values of RALF_MAX_RETRIES the model starts a process with
ConfiguredRetries == (0..MaxConfiguredRetries) \cup {MAX_RETRIES}

RequestsSent == SelectSeq(ralf.log, LAMBDA x : x.kind = "request")
DelaysSlept == SelectSeq(ralf.log, LAMBDA x : x.kind = "sleep")

\* ralf_proxy.py:37-44
RalfCall ==
    /\ ralf.pc = "idle"
    /\ ralf' = [ralf EXCEPT !.pc = "loop", !.attempt = 0, !.last_error = NoError]
    /\ UNCHANGED <<app_vars, tool_vars, stream>>

\* RalfLoopHead with one attempt more than range(MAX_RETRIES) gives
RalfLoopHead_offByOne ==
    /\ ralf.pc = "loop"
    /\ IF ralf.attempt <= ralf.max_retries
       THEN ralf' = [ralf EXCEPT !.pc = "post"]
       ELSE ralf' = [ralf EXCEPT !.pc = "returned", !.response = NoResponse,
                                 !.error = ralf.last_error]
    /\ UNCHANGED <<app_vars, tool_vars, stream>>

\* ralf_proxy.py:46 and 91: for attempt in range(MAX_RETRIES); after the loop the
\* call returns (None, last_error)
RalfLoopHead ==
    /\ ralf.pc = "loop"
    /\ IF ralf.attempt < ralf.max_retries
       THEN ralf' = [ralf EXCEPT !.pc = "post"]
       ELSE ralf' = [ralf EXCEPT !.pc = "returned", !.response = NoResponse,
                                 !.error = ralf.last_error]
    /\ UNCHANGED <<app_vars, tool_vars, stream>>

\* ralf_proxy.py:47-77: one request and the classification of its outcome
RalfPost ==
    /\ ralf.pc = "post"
    /\ \E outcome \in UpstreamOutcomes(Len(RequestsSent) + 1) :
        LET sent == Append(ralf.log, [kind |-> "request", attempt |-> ralf.attempt,
                                      outcome |-> outcome, delay |-> 0])
        IN  IF outcome.raised
            THEN ralf' = [ralf EXCEPT !.log = sent, !.pc = "backoff",
                            !.last_error = LastError(@, ConnectionError(outcome.text))]
            ELSE IF IsSuccess(outcome.status_code)
            THEN ralf' = [ralf EXCEPT !.log = sent, !.pc = "returned",
                            !.response = outcome, !.error = NoError]
            ELSE IF IsClientError(outcome.status_code)
            THEN ralf' = [ralf EXCEPT !.log = sent, !.pc = "returned",
                            !.response = NoResponse, !.error = ClientError(outcome)]
            ELSE ralf' = [ralf EXCEPT !.log = sent, !.pc = "backoff",
                            !.last_error = LastError(@, TemporalError(outcome))]
    /\ UNCHANGED <<app_vars, tool_vars, stream>>

\* RalfBackoff that never sleeps
RalfBackoff_noSleep ==
    /\ ralf.pc = "backoff"
    /\ ralf' = [ralf EXCEPT !.attempt = @ + 1, !.pc = "loop"]
    /\ UNCHANGED <<app_vars, tool_vars, stream>>

\* RalfBackoff without the test of ralf_proxy.py:85
RalfBackoff_sleepsAfterLast ==
    /\ ralf.pc = "backoff"
    /\ \E r \in RandomDraws :
        LET final_delay == FinalDelay(ralf.attempt, r) IN
        ralf' = [ralf EXCEPT
                    !.log = Append(@, [kind |-> "sleep", attempt |-> ralf.attempt,
                                       outcome |-> NoResponse, delay |-> final_delay]),
                    !.attempt = @ + 1, !.pc = "loop"]
    /\ UNCHANGED <<app_vars, tool_vars, stream>>

\* ralf_proxy.py:79-89: the delay is computed after every failed attempt and slept
\* unless the attempt was the last one
RalfBackoff ==
    /\ ralf.pc = "backoff"
    /\ \E r \in RandomDraws :
        LET final_delay == FinalDelay(ralf.attempt, r) IN
        ralf' = [ralf EXCEPT
                    !.log = IF ralf.attempt < ralf.max_retries - 1
                            THEN Append(@, [kind |-> "sleep", attempt |-> ralf.attempt,
                                            outcome |-> NoResponse, delay |-> final_delay])
                            ELSE @,
                    !.attempt = @ + 1, !.pc = "loop"]
    /\ UNCHANGED <<app_vars, tool_vars, stream>>

----------------------------------------------------------------------------
(* ralf_proxy.py: chat_completions in streaming mode *)

\* what response.iter_lines() yields, decoded; a line may be empty
UpstreamLines == { << >>, <<"h", "o">>, <<"l", "a">> }

\* the sequences of up to n lines
RECURSIVE LinesUpTo(_)
LinesUpTo(n) ==
    IF n = 0 THEN { << >> }
    ELSE LinesUpTo(n - 1)
            \cup {Append(ls, l) : ls \in LinesUpTo(n - 1), l \in UpstreamLines}

\* no streaming response has been started
NewStream == [pc |-> "idle", upstream |-> << >>, next |-> 1, out |-> << >>]

\* ralf_proxy.py:151-160: "data: {json with delta.content = line}\n\n"
Chunk(line) == [kind |-> "chunk", content |-> line]

\* ralf_proxy.py:163: "data: [DONE]\n\n"
Sentinel == [kind |-> "sentinel", content |-> << >>]

\* ralf_proxy.py:145-167: call_ralf_with_retry has returned a response and the
\* request asked for streaming; Flask starts to iterate generate()
StreamOpen ==
    /\ stream.pc = "idle"
    /\ \E lines \in LinesUpTo(MaxLines) :
          stream' = [pc |-> "iter", upstream |-> lines, next |-> 1, out |-> << >>]
    /\ UNCHANGED <<app_vars, tool_vars, ralf>>

\* StreamLine without the test of ralf_proxy.py:149
StreamLine_keepsEmpty ==
    /\ stream.pc = "iter"
    /\ stream.next <= Len(stream.upstream)
    /\ stream' = [stream EXCEPT !.next = @ + 1,
                                !.out = Append(@, Chunk(stream.upstream[stream.next]))]
    /\ UNCHANGED <<app_vars, tool_vars, ralf>>

\* ralf_proxy.py:148-160: the loop takes the next line and, if it is not empty,
\* yields a chunk for it
StreamLine ==
    /\ stream.pc = "iter"
    /\ stream.next <= Len(stream.upstream)
    /\ LET line == stream.upstream[stream.next] IN
       stream' = [stream EXCEPT !.next = @ + 1,
                                !.out = IF line # << >> THEN Append(@, Chunk(line)) ELSE @]
    /\ UNCHANGED <<app_vars, tool_vars, ralf>>

\* ralf_proxy.py:148, 154: iter_lines() raises when the connection breaks, and
\* decode() raises on bytes that are not UTF-8; the exception ends generate()
StreamRaise ==
    /\ stream.pc = "iter"
    /\ stream' = [stream EXCEPT !.pc = "raised"]
    /\ UNCHANGED <<app_vars, tool_vars, ralf>>

\* ralf_proxy.py:148, 163: iter_lines() is exhausted and the marker is yielded
StreamEnd ==
    /\ stream.pc = "iter"
    /\ stream.next = Len(stream.upstream) + 1
    /\ stream' = [stream EXCEPT !.pc = "done", !.out = Append(@, Sentinel)]
    /\ UNCHANGED <<app_vars, tool_vars, ralf>>

----------------------------------------------------------------------------
(* crew.py: the as-of date *)

\* datetime.now().strftime("%Y-%m-%d") (app.py:312, crew.py:704, 772, 997)
Today == <<"2", "0", "2", "6", "-", "1", "1", "-", "0", "1">>

\* int(c) for a digit c
DigitValue(c) == CHOOSE n \in 0..9 : Digits[n + 1] = c

\* crew.py:343: datetime.strptime(current_date, "%Y-%m-%d") returns for a text of
\* the form YYYY-MM-DD with a month and a day in range, and raises ValueError
\* for the others (of the dates of the model: for "")
IsDate(text) ==
    /\ Len(text) = 10
    /\ text[5] = "-" /\ text[8] = "-"
    /\ \A i \in {1, 2, 3, 4, 6, 7, 9, 10} : IsDigit(text[i])
    /\ 10 * DigitValue(text[6]) + DigitValue(text[7]) \in 1..12
    /\ 10 * DigitValue(text[9]) + DigitValue(text[10]) \in 1..31

\* str(e) of the ValueError of strptime
StrptimeError(text) ==
    <<"t", "i", "m", "e", " ", "d", "a", "t", "a", " ", "'">> \o text
        \o <<"'", " ", "d", "o", "e", "s", " ", "n", "o", "t", " ", "m", "a", "t", "c", "h">>

\* the current_date argument of a call of generate_news_article: given, passed
\* as None, or left out
GivenDate(text) == [kind |-> "given", text |-> text]
NoneDate == [kind |-> "none", text |-> << >>]
OmittedDate == [kind |-> "omitted", text |-> << >>]

\* a date other than today's, as test_fecha_sistema.py:57-66 passes one
EarlierDate == <<"2", "0", "2", "5", "-", "1", "1", "-", "2", "8">>

DateArgs == {GivenDate(Today), GivenDate(EarlierDate), NoneDate, OmittedDate}

\* crew.py:978-997: the parameter's default is "", and only None is replaced
\* by today's date
ResolveDate(arg) ==
    IF arg.kind = "none" THEN Today
    ELSE IF arg.kind = "omitted" THEN << >>
    ELSE arg.text

----------------------------------------------------------------------------
(* State after the module is imported *)

\* a dict with no key
EmptyDict == [x \in {} |-> x]

----------------------------------------------------------------------------
(* tools.py: NewsSearchTool._run *)

\* tools.py:58, 90-92: the default of max_results
DefaultMaxResults == 5

\* tools.py:113: the largest max_results sent to the backend
MaxResultsCap == 20

\* tools.py:199, 216, 250: the sources with full content
DeepSources == {"La Republica", "El Comercio", "Infobae"}

\* tools.py:202, 231, 253: the global APIs
ApiSources == {"NewsAPI", "TheNewsAPI"}

\* tools.py:246, 247, 258
FuenteDesconocida == "Fuente desconocida"
SinContenido == <<"S", "i", "n", " ", "c", "o", "n", "t", "e", "n", "i", "d", "o">>
SinTitulo == "Sin titulo"

\* the max_results a caller passes: None, or a number inside or outside 1..20
MaxResultsArgs ==
    { [given |-> FALSE, value |-> 0] }
    \cup { [given |-> TRUE, value |-> v] : v \in {-3, 7, 25} }

\* an element of the 'results' list of the backend's JSON: a JSON object with or
\* without 'source', 'content' (which may be null) and 'title', or a JSON value
\* that is not an object
SearchItems ==
    { [is_dict |-> TRUE, has_source |-> TRUE, source |-> "Infobae",
       has_content |-> TRUE, content_null |-> FALSE, content |-> <<"h", "o", "y">>],
      [is_dict |-> TRUE, has_source |-> TRUE, source |-> "NewsAPI",
       has_content |-> FALSE, content_null |-> FALSE, content |-> << >>],
      [is_dict |-> TRUE, has_source |-> FALSE, source |-> "",
       has_content |-> TRUE, content_null |-> TRUE, content |-> << >>],
      [is_dict |-> FALSE, has_source |-> FALSE, source |-> "",
       has_content |-> FALSE, content_null |-> FALSE, content |-> << >>] }

\* the lists of up to MaxItems items
RECURSIVE ItemLists(_)
ItemLists(n) ==
    IF n = 0 THEN { << >> }
    ELSE ItemLists(n - 1)
         \cup { Append(l, x) : l \in { m \in ItemLists(n - 1) : Len(m) = n - 1 },
                               x \in SearchItems }

\* the body of an answer: not JSON at all, or a JSON value of some kind (null, a
\* list, a string, an object); 'has_results' says whether "results" in data is
\* true of it, and for an object what data["results"] is: null, an empty
\* object, or a list of items
SearchBodies ==
    { [json |-> FALSE, kind |-> "none", has_results |-> FALSE,
       results_kind |-> "none", results |-> << >>] }
    \cup { [json |-> TRUE, kind |-> "null", has_results |-> FALSE,
            results_kind |-> "none", results |-> << >>] }
    \cup { [json |-> TRUE, kind |-> k, has_results |-> h,
            results_kind |-> "none", results |-> << >>] :
              k \in {"list", "string"}, h \in BOOLEAN }
    \cup { [json |-> TRUE, kind |-> "dict", has_results |-> FALSE,
            results_kind |-> "none", results |-> << >>] }
    \cup { [json |-> TRUE, kind |-> "dict", has_results |-> TRUE,
            results_kind |-> k, results |-> << >>] : k \in {"null", "object"} }
    \cup { [json |-> TRUE, kind |-> "dict", has_results |-> TRUE,
            results_kind |-> "list", results |-> l] : l \in ItemLists(MaxItems) }

\* the status codes of the backend's answers
SearchStatuses == {200, 304, 404, 500}

NoBody ==
    [json |-> FALSE, kind |-> "none", has_results |-> FALSE,
     results_kind |-> "none", results |-> << >>]

\* what requests.get does (tools.py:151-156): it raises requests.Timeout,
\* requests.ConnectionError or another exception, or it returns a response
SearchOutcomes ==
    { [raised |-> e, status_code |-> 0, body |-> NoBody] :
          e \in {"Timeout", "ConnectionError", "TooManyRedirects"} }
    \cup { [raised |-> "", status_code |-> c, body |-> b] :
              c \in SearchStatuses, b \in SearchBodies }

\* no outcome yet
NoOutcome == [raised |-> "", status_code |-> 0, body |-> NoBody]

NewSearch ==
    [pc |-> "idle", query |-> "", max_results |-> 0, outcome |-> NoOutcome,
     result |-> [x \in {} |-> x]]

\* tools.py:290-332: the dict that a handler returns
SearchError(text, detail) ==
    [status |-> "error", message |-> <<text, detail>>, results |-> << >>]

\* tools.py:290-299
TimeoutResult ==
    SearchError("La busqueda excedio el tiempo limite. Intenta con una consulta mas especifica.", "")

\* tools.py:301-310
ConnectionResult == SearchError("ScraperRalf no esta disponible.", "base_url")

\* tools.py:312-321
HTTPErrorResult(status_code) ==
    SearchError("Error del servidor de busqueda: ", ToString(status_code))

\* tools.py:323-332: type(e).__name__ of any other exception
InternalErrorResult(type_name) == SearchError("Error interno: ", type_name)

\* tools.py:182-190
InvalidFormatResult == SearchError("Formato de respuesta invalido de ScraperRalf", "")

\* tools.py:244-270: one formatted result
Formatted(item, idx) ==
    LET source == IF item.has_source THEN item.source ELSE FuenteDesconocida
        content == IF item.has_content THEN item.content ELSE SinContenido
    IN  [id |-> idx, title |-> SinTitulo, content |-> content, source |-> source,
         tier |-> IF source \in DeepSources THEN "deep"
                  ELSE IF source \in ApiSources THEN "api" ELSE "unknown",
         content_length |-> Len(content)]

\* tools.py:273-288
SearchSuccess(query, results) ==
    LET formatted == [i \in DOMAIN results |-> Formatted(results[i], i)] IN
    [status |-> "success", query |-> query, total_results |-> Len(formatted),
     deep_sources_count |->
        Cardinality({i \in DOMAIN formatted : formatted[i].tier = "deep"}),
     api_sources_count |->
        Cardinality({i \in DOMAIN formatted : formatted[i].tier = "api"}),
     results |-> formatted]

\* tools.py:196-270: r.get of an item that is not an object raises
\* AttributeError, len() of a null content raises TypeError
Malformed(results) ==
    \E i \in DOMAIN results :
        \/ ~results[i].is_dict
        \/ results[i].has_content /\ results[i].content_null

\* tools.py:109-113: max_results = default if None, then clamped to 1..20
Clamp(max_results) ==
    LET given == IF max_results.given THEN max_results.value ELSE DefaultMaxResults
    IN  Max(1, Min(given, MaxResultsCap))

\* tools.py:94-145: _run is entered and the request is prepared
SearchRun ==
    /\ search.pc = "idle"
    /\ \E q \in {"IA"}, m \in MaxResultsArgs :
          search' = [search EXCEPT !.pc = "get", !.query = q, !.max_results = Clamp(m)]
    /\ UNCHANGED <<app_vars, proxy_vars>>

\* tools.py:151-156, 290-310, 323-332: requests.get returns or raises; the handlers of
\* Timeout, ConnectionError and Exception return an error
SearchGet ==
    /\ search.pc = "get"
    /\ \E o \in SearchOutcomes :
          search' = [search EXCEPT
              !.outcome = o,
              !.pc = IF o.raised = "" THEN "raise_for_status" ELSE "returned",
              !.result = IF o.raised = "" THEN @
                         ELSE IF o.raised = "Timeout" THEN TimeoutResult
                         ELSE IF o.raised = "ConnectionError" THEN ConnectionResult
                         ELSE InternalErrorResult(o.raised)]
    /\ UNCHANGED <<app_vars, proxy_vars>>

\* tools.py:159, 312-321: raise_for_status raises HTTPError for 4xx and 5xx
SearchRaiseForStatus ==
    /\ search.pc = "raise_for_status"
    /\ IF search.outcome.status_code >= 400
       THEN search' = [search EXCEPT !.pc = "returned",
                          !.result = HTTPErrorResult(search.outcome.status_code)]
       ELSE search' = [search EXCEPT !.pc = "json"]
    /\ UNCHANGED <<app_vars, proxy_vars>>

\* SearchJson without the handler of tools.py:323: the exception leaves _run
SearchJson_noCatchAll ==
    /\ search.pc = "json"
    /\ IF ~search.outcome.body.json
       THEN search' = [search EXCEPT !.pc = "raised"]
       ELSE search' = [search EXCEPT !.pc = "validate"]
    /\ UNCHANGED <<app_vars, proxy_vars>>

\* tools.py:162, 323-332: response.json() raises on a body that is not JSON
SearchJson ==
    /\ search.pc = "json"
    /\ IF ~search.outcome.body.json
       THEN search' = [search EXCEPT !.pc = "returned",
                          !.result = InternalErrorResult("JSONDecodeError")]
       ELSE search' = [search EXCEPT !.pc = "validate"]
    /\ UNCHANGED <<app_vars, proxy_vars>>

\* tools.py:182-192: "results" not in data raises TypeError when data is null,
\* gives the invalid-format error when it is true, and data["results"] raises
\* TypeError when data is a list or a string
SearchValidate ==
    /\ search.pc = "validate"
    /\ LET data == search.outcome.body IN
       IF data.kind = "null"
       THEN search' = [search EXCEPT !.pc = "returned",
                          !.result = InternalErrorResult("TypeError")]
       ELSE IF ~data.has_results
       THEN search' = [search EXCEPT !.pc = "returned", !.result = InvalidFormatResult]
       ELSE IF data.kind # "dict"
       THEN search' = [search EXCEPT !.pc = "returned",
                          !.result = InternalErrorResult("TypeError")]
       ELSE search' = [search EXCEPT !.pc = "format"]
    /\ UNCHANGED <<app_vars, proxy_vars>>

\* tools.py:192-288, 323-332: the results are counted and formatted. len() of a
\* null raises, an empty object is iterated like an empty list, an item that is
\* not an object with a text content raises; the handler of Exception returns
\* an error
SearchFormat ==
    /\ search.pc = "format"
    /\ LET data == search.outcome.body IN
       IF data.results_kind = "null"
       THEN search' = [search EXCEPT !.pc = "returned",
                          !.result = InternalErrorResult("TypeError")]
       ELSE IF Malformed(data.results)
       THEN search' = [search EXCEPT !.pc = "returned",
                          !.result = InternalErrorResult("TypeError")]
       ELSE search' = [search EXCEPT !.pc = "returned",
                          !.result = SearchSuccess(search.query, data.results)]
    /\ UNCHANGED <<app_vars, proxy_vars>>

\* one call of the search tool
NextSearch ==
    \/ SearchRun
    \/ SearchGet
    \/ SearchRaiseForStatus
    \/ SearchJson
    \/ SearchValidate
    \/ SearchFormat

----------------------------------------------------------------------------
\* the state after the modules are loaded, with the given transport and the
\* given configuration of the proxy
InitOf(transport, ralf_call) ==
    /\ active_sessions = EmptyDict
    /\ results_cache = EmptyDict
    /\ socketio_instance = transport
    /\ global_callback = 0
    /\ callback_objs = EmptyDict
    /\ frame = EmptyDict
    /\ events = EmptyDict
    /\ calls = EmptyDict
    /\ ralf = ralf_call
    /\ clients = EmptyDict
    /\ queries = EmptyDict
    /\ submissions = << >>
    /\ stream = NewStream
    /\ search = NewSearch

\* app.py:67 injects the transport before any request is served
Init == InitOf(Connected, NewRalfCall)

Threads == DOMAIN frame

\* the locals of a session thread when Thread.start() is called (app.py:166-168)
\* and generate_news_article has its date (crew.py:994-997)
NewFrame(topic, date_arg) ==
    [pc |-> "async_start", topic |-> topic, date_arg |-> date_arg,
     current_date |-> ResolveDate(date_arg), iteration |-> 0, callback |-> 0,
     verdicts |-> << >>,
     investigation_result |-> EmptyText, analysis_result |-> EmptyText,
     final_article |-> EmptyText, result |-> EmptyDict,
     exc |-> EmptyText, error_msg |-> EmptyText]

At(s, label) == s \in Threads /\ frame[s].pc = label

Goto(s, label) == frame' = [frame EXCEPT ![s].pc = label]

\* a kickoff() of thread s: the worker, the cycle, what it was given, and what it
\* returned (or, when it raised, the exception's message). The Researcher's and
\* the Validator's agent and task are built with the run's current_date
\* (crew.py:787-790, 821-836); the Composer's are built without a date.
Invoke(s, worker, input, raised, output) ==
    calls' = [calls EXCEPT ![s] =
                Append(@, [worker |-> worker, iteration |-> frame[s].iteration,
                           current_date |-> IF worker = "Composer" THEN << >>
                                            ELSE frame[s].current_date,
                           input |-> input, raised |-> raised, output |-> output])]

----------------------------------------------------------------------------
(* app.py: generate_article *)

\* HasBlankTopic without the strip() of app.py:145
HasBlankTopic_noStrip(body) == body.topic = EmptyText

\* app.py:145-147: topic = data["topic"].strip(); if not topic
HasBlankTopic(body) == Strip(body.topic) = EmptyText

\* the requests that generate_article has answered with an error
Rejected == SelectSeq(submissions, LAMBDA x : x.http # 202)

\* app.py:138-143, 148-151, 182-184: an error response; nothing else is written
Reject(body, http) ==
    /\ Len(Rejected) < MaxRejects
    /\ submissions' = Append(submissions,
           [body |-> body, http |-> http, status |-> "error", session_id |-> 0])
    /\ UNCHANGED <<active_sessions, frame, events, calls>>

\* app.py:133-184 for one request. Without a JSON body get_json() returns None
\* (400 at app.py:137) or raises, depending on the Flask release and on the
\* request's content type (500 at app.py:182); strip() of a topic that is not a
\* string raises (500). uuid4 gives a fresh id; ids are opaque, so the model
\* numbers them in the order they are given out.
GenerateArticleOf(body, limit) ==
    LET topic == Strip(body.topic)
        session_id == Cardinality(DOMAIN active_sessions) + 1
    IN  /\ \/ ~body.json /\ \E http \in {400, 500} : Reject(body, http)
           \/ body.json /\ ~body.has_topic /\ Reject(body, 400)
           \/ body.json /\ body.has_topic /\ ~body.is_text /\ Reject(body, 500)
           \/ /\ body.json /\ body.has_topic /\ body.is_text
              /\ HasBlankTopic(body)
              /\ Reject(body, 400)
           \/ /\ body.json /\ body.has_topic /\ body.is_text
              /\ ~HasBlankTopic(body)
              /\ session_id <= limit
              /\ active_sessions' = DictSet(active_sessions, session_id,
                     [topic |-> topic, started_at |-> "now", status |-> "running"])
              /\ frame' = DictSet(frame, session_id, NewFrame(topic, GivenDate(Today)))
              /\ events' = DictSet(events, session_id, << >>)
              /\ calls' = DictSet(calls, session_id, << >>)
              /\ submissions' = Append(submissions,
                     [body |-> body, http |-> 202, status |-> "started",
                      session_id |-> session_id])
        /\ UNCHANGED <<proxy_vars, tool_vars, clients, queries, results_cache, socketio_instance,
                       global_callback, callback_objs>>

\* the requests with a topic that is not blank, while fewer than 'limit' sessions
\* are registered
GenerateArticleUpTo(limit) ==
    \E raw \in RawTopics : GenerateArticleOf(JsonWith(raw), limit)

\* the submissions the model accepts
GenerateArticle == GenerateArticleUpTo(MaxSessions)

----------------------------------------------------------------------------
(* crew.py: generate_news_article, NewsCrew.__init__, NewsCrew.run *)

\* crew.py:978-1002, test_simple.py:51: generate_news_article called directly,
\* not by run_crew_async, with or without a date; there is no registry entry
GenerateNewsArticleCallOf(date_args, limit) ==
    \E raw \in RawTopics, date_arg \in date_args :
        LET session_id == Cardinality(DOMAIN frame) + 1 IN
        /\ session_id <= limit
        /\ frame' = DictSet(frame, session_id, NewFrame(Strip(raw), date_arg))
        /\ events' = DictSet(events, session_id, << >>)
        /\ calls' = DictSet(calls, session_id, << >>)
        /\ UNCHANGED <<proxy_vars, tool_vars, client_vars, active_sessions, results_cache,
                       socketio_instance, global_callback, callback_objs>>

\* the direct calls the model makes
GenerateNewsArticleCall == GenerateNewsArticleCallOf(DateArgs, MaxSessions)

\* app.py:306-316, crew.py:994-1002, 702-708, callbacks.py:363-364: the thread
\* enters NewsCrew.__init__ and get_callback_handler, which tests whether the
\* global callback is of this session
GetCallbackTest(s) ==
    /\ At(s, "async_start")
    /\ Goto(s, IF NeedsNewCallback(s) THEN "callback_make" ELSE "callback_return")
    /\ UNCHANGED <<proxy_vars, tool_vars, client_vars, active_sessions, results_cache,
                   socketio_instance, global_callback, callback_objs, events, calls>>

\* callbacks.py:365: _global_callback = RealtimeAgentCallback(session_id)
GetCallbackMake(s) ==
    /\ At(s, "callback_make")
    /\ callback_objs' = DictSet(callback_objs, s, NewCallback(s))
    /\ global_callback' = s
    /\ Goto(s, "callback_return")
    /\ UNCHANGED <<proxy_vars, tool_vars, client_vars, active_sessions, results_cache,
                   socketio_instance, events, calls>>

\* callbacks.py:366, crew.py:708-716: get_callback_handler returns what the global
\* holds now, NewsCrew keeps it as self.callback and creates the agents, which
\* may raise (run_crew_async catches it)
NewsCrewInit(s) ==
    /\ At(s, "callback_return")
    /\ \/ frame' = [frame EXCEPT ![s].callback = global_callback, ![s].pc = "loop"]
       \/ \E e \in InitFailures :
             frame' = [frame EXCEPT ![s].callback = global_callback, ![s].exc = e,
                                    ![s].pc = "async_except"]
    /\ UNCHANGED <<proxy_vars, tool_vars, client_vars, active_sessions, results_cache,
                   socketio_instance, global_callback, callback_objs, events, calls>>

\* LoopHead with the test of crew.py:781 written <= for <
LoopHead_offByOne(s) ==
    /\ At(s, "loop")
    /\ IF frame[s].iteration <= MAX_ITERATIONS
       THEN IF IsDate(frame[s].current_date)
            THEN frame' = [frame EXCEPT ![s].iteration = @ + 1, ![s].pc = "research_start"]
            ELSE frame' = [frame EXCEPT ![s].iteration = @ + 1,
                                        ![s].exc = StrptimeError(frame[s].current_date),
                                        ![s].pc = "run_except"]
       ELSE frame' = [frame EXCEPT
                ![s].result = ErrorResult(frame[s].topic, NoAprobacionError, s),
                ![s].pc = "async_format"]
    /\ UNCHANGED <<proxy_vars, tool_vars, client_vars, active_sessions, results_cache, socketio_instance, global_callback,
                   callback_objs, events, calls>>

\* crew.py:781-790 and 952-958: the loop test; when it fails the run returns.
\* Inside the loop create_investigation_task parses the date (crew.py:343) and
\* its ValueError goes to the except of crew.py:960.
LoopHead(s) ==
    /\ At(s, "loop")
    /\ IF frame[s].iteration < MAX_ITERATIONS
       THEN IF IsDate(frame[s].current_date)
            THEN frame' = [frame EXCEPT ![s].iteration = @ + 1, ![s].pc = "research_start"]
            ELSE frame' = [frame EXCEPT ![s].iteration = @ + 1,
                                        ![s].exc = StrptimeError(frame[s].current_date),
                                        ![s].pc = "run_except"]
       ELSE frame' = [frame EXCEPT
                ![s].result = ErrorResult(frame[s].topic, NoAprobacionError, s),
                ![s].pc = "async_format"]
    /\ UNCHANGED <<proxy_vars, tool_vars, client_vars, active_sessions, results_cache, socketio_instance, global_callback,
                   callback_objs, events, calls>>

\* crew.py:800-802
ResearchStart(s) ==
    /\ At(s, "research_start")
    /\ on_agent_start(s, frame[s].callback, Investigador,
                      InvestigandoPrefix \o frame[s].topic)
    /\ Goto(s, "research_kickoff")
    /\ UNCHANGED <<proxy_vars, tool_vars, queries, submissions, active_sessions, results_cache, socketio_instance, global_callback, calls>>

\* crew.py:803: investigation_crew.kickoff() returns a report or raises
ResearchKickoff(s) ==
    /\ At(s, "research_kickoff")
    /\ \/ \E out \in ResearchOutputs :
            /\ Invoke(s, "Researcher", frame[s].topic, FALSE, out)
            /\ frame' = [frame EXCEPT ![s].investigation_result = out,
                                      ![s].pc = "research_finish"]
       \/ \E e \in WorkerFailures :
            /\ Invoke(s, "Researcher", frame[s].topic, TRUE, e)
            /\ frame' = [frame EXCEPT ![s].exc = e, ![s].pc = "run_except"]
    /\ UNCHANGED <<proxy_vars, tool_vars, client_vars, active_sessions, results_cache, socketio_instance, global_callback,
                   callback_objs, events>>

\* ResearchFinish if _emit had no try around emit (callbacks.py:98-103): the
\* exception of a failing emit reaches the except of crew.py:960
ResearchFinish_emitRaises(s) ==
    /\ At(s, "research_finish")
    /\ on_agent_finish(s, frame[s].callback, Investigador, frame[s].investigation_result)
    /\ IF socketio_instance = Broken
       THEN \E e \in EmitFailures :
               frame' = [frame EXCEPT ![s].exc = e, ![s].pc = "run_except"]
       ELSE Goto(s, "analysis_start")
    /\ UNCHANGED <<proxy_vars, tool_vars, queries, submissions, active_sessions, results_cache, socketio_instance, global_callback, calls>>

\* crew.py:804-806
ResearchFinish(s) ==
    /\ At(s, "research_finish")
    /\ on_agent_finish(s, frame[s].callback, Investigador, frame[s].investigation_result)
    /\ Goto(s, "analysis_start")
    /\ UNCHANGED <<proxy_vars, tool_vars, queries, submissions, active_sessions, results_cache, socketio_instance, global_callback, calls>>

\* crew.py:858-860
AnalysisStart(s) ==
    /\ At(s, "analysis_start")
    /\ on_agent_start(s, frame[s].callback, Analista, AnalizandoReporte)
    /\ Goto(s, "analysis_kickoff")
    /\ UNCHANGED <<proxy_vars, tool_vars, queries, submissions, active_sessions, results_cache, socketio_instance, global_callback, calls>>

\* crew.py:861: analysis_crew.kickoff() returns the Validator's text, one of
\* outputs, or raises
AnalysisKickoffFrom(s, outputs) ==
    /\ At(s, "analysis_kickoff")
    /\ \/ \E out \in outputs :
            /\ Invoke(s, "Validator", frame[s].investigation_result, FALSE, out)
            /\ frame' = [frame EXCEPT ![s].analysis_result = out,
                                      ![s].pc = "analysis_finish"]
       \/ \E e \in WorkerFailures :
            /\ Invoke(s, "Validator", frame[s].investigation_result, TRUE, e)
            /\ frame' = [frame EXCEPT ![s].exc = e, ![s].pc = "run_except"]
    /\ UNCHANGED <<proxy_vars, tool_vars, client_vars, active_sessions, results_cache, socketio_instance, global_callback,
                   callback_objs, events>>

AnalysisKickoff(s) == AnalysisKickoffFrom(s, ValidatorOutputs)

\* crew.py:862-864
AnalysisFinish(s) ==
    /\ At(s, "analysis_finish")
    /\ on_agent_finish(s, frame[s].callback, Analista, frame[s].analysis_result)
    /\ Goto(s, "verdict")
    /\ UNCHANGED <<proxy_vars, tool_vars, queries, submissions, active_sessions, results_cache, socketio_instance, global_callback, calls>>

\* the branch of crew.py:869 / 921 / 946 that thread s takes on its Validator's text
Taken(s, verdict) ==
    [iteration |-> frame[s].iteration, text |-> frame[s].analysis_result,
     verdict |-> verdict]

\* Decide reading a text without a verdict as a rejection in the last cycle
Decide_lastCycleStrict(s) ==
    /\ At(s, "verdict")
    /\ LET verdict == IF frame[s].iteration = MAX_ITERATIONS
                         /\ Verdict(frame[s].analysis_result) = "Ambiguous"
                      THEN "Rejected"
                      ELSE Verdict(frame[s].analysis_result)
           taken == [frame EXCEPT ![s].verdicts = Append(@, Taken(s, verdict))]
       IN
       frame' =
         IF verdict = "Approved"
         THEN [taken EXCEPT ![s].pc = "writing_start"]
         ELSE IF verdict = "Rejected"
         THEN IF frame[s].iteration < MAX_ITERATIONS
              THEN [taken EXCEPT ![s].pc = "backtracking"]
              ELSE [taken EXCEPT
                      ![s].result = ErrorResult(frame[s].topic,
                                                RejectedError(frame[s].analysis_result), s),
                      ![s].pc = "async_format"]
         ELSE [taken EXCEPT ![s].pc = "loop"]
    /\ UNCHANGED <<proxy_vars, tool_vars, client_vars, active_sessions, results_cache, socketio_instance, global_callback,
                   callback_objs, events, calls>>

\* Decide with the else branch of crew.py:946-950 falling into the Composer stage
Decide_ambiguousProceeds(s) ==
    /\ At(s, "verdict")
    /\ LET verdict == Verdict(frame[s].analysis_result)
           taken == [frame EXCEPT ![s].verdicts = Append(@, Taken(s, verdict))]
       IN
       frame' =
         IF verdict = "Rejected"
         THEN IF frame[s].iteration < MAX_ITERATIONS
              THEN [taken EXCEPT ![s].pc = "backtracking"]
              ELSE [taken EXCEPT
                      ![s].result = ErrorResult(frame[s].topic,
                                                RejectedError(frame[s].analysis_result), s),
                      ![s].pc = "async_format"]
         ELSE [taken EXCEPT ![s].pc = "writing_start"]
    /\ UNCHANGED <<proxy_vars, tool_vars, client_vars, active_sessions, results_cache, socketio_instance, global_callback,
                   callback_objs, events, calls>>

\* crew.py:866-950: the branch taken on the Validator's text. Approved goes on to
\* the Composer; Rejected backtracks while iterations remain and otherwise returns
\* the error dict; anything else continues the loop.
Decide(s) ==
    /\ At(s, "verdict")
    /\ LET verdict == Verdict(frame[s].analysis_result)
           taken == [frame EXCEPT ![s].verdicts = Append(@, Taken(s, verdict))]
       IN
       frame' =
         IF verdict = "Approved"
         THEN [taken EXCEPT ![s].pc = "writing_start"]
         ELSE IF verdict = "Rejected"
         THEN IF frame[s].iteration < MAX_ITERATIONS
              THEN [taken EXCEPT ![s].pc = "backtracking"]
              ELSE [taken EXCEPT
                      ![s].result = ErrorResult(frame[s].topic,
                                                RejectedError(frame[s].analysis_result), s),
                      ![s].pc = "async_format"]
         ELSE [taken EXCEPT ![s].pc = "loop"]
    /\ UNCHANGED <<proxy_vars, tool_vars, client_vars, active_sessions, results_cache, socketio_instance, global_callback,
                   callback_objs, events, calls>>

\* Backtrack taking a new date for the next cycle
Backtrack_refreshesDate(s) ==
    /\ At(s, "backtracking")
    /\ on_backtracking(s, frame[s].callback, frame[s].analysis_result)
    /\ frame' = [frame EXCEPT
            ![s].topic = RefinedTopic(frame[s].topic, frame[s].analysis_result),
            ![s].current_date = Today,
            ![s].pc = "loop"]
    /\ UNCHANGED <<proxy_vars, tool_vars, queries, submissions, active_sessions, results_cache, socketio_instance, global_callback, calls>>

\* crew.py:931-935
Backtrack(s) ==
    /\ At(s, "backtracking")
    /\ on_backtracking(s, frame[s].callback, frame[s].analysis_result)
    /\ frame' = [frame EXCEPT
            ![s].topic = RefinedTopic(frame[s].topic, frame[s].analysis_result),
            ![s].pc = "loop"]
    /\ UNCHANGED <<proxy_vars, tool_vars, queries, submissions, active_sessions, results_cache, socketio_instance, global_callback, calls>>

\* crew.py:902-904
WritingStart(s) ==
    /\ At(s, "writing_start")
    /\ on_agent_start(s, frame[s].callback, Redactor, EscribiendoArticulo)
    /\ Goto(s, "writing_kickoff")
    /\ UNCHANGED <<proxy_vars, tool_vars, queries, submissions, active_sessions, results_cache, socketio_instance, global_callback, calls>>

\* crew.py:905: writing_crew.kickoff() returns the article or raises
WritingKickoff(s) ==
    /\ At(s, "writing_kickoff")
    /\ \/ \E out \in ComposerOutputs :
            /\ Invoke(s, "Composer", frame[s].analysis_result, FALSE, out)
            /\ frame' = [frame EXCEPT ![s].final_article = out,
                                      ![s].pc = "writing_finish"]
       \/ \E e \in WorkerFailures :
            /\ Invoke(s, "Composer", frame[s].analysis_result, TRUE, e)
            /\ frame' = [frame EXCEPT ![s].exc = e, ![s].pc = "run_except"]
    /\ UNCHANGED <<proxy_vars, tool_vars, client_vars, active_sessions, results_cache, socketio_instance, global_callback,
                   callback_objs, events>>

\* crew.py:906-908
WritingFinish(s) ==
    /\ At(s, "writing_finish")
    /\ on_agent_finish(s, frame[s].callback, Redactor, ArticuloFinalizado)
    /\ Goto(s, "crew_finish")
    /\ UNCHANGED <<proxy_vars, tool_vars, queries, submissions, active_sessions, results_cache, socketio_instance, global_callback, calls>>

\* CrewFinish without the return of crew.py:913: the loop goes on
CrewFinish_noReturn(s) ==
    /\ At(s, "crew_finish")
    /\ on_crew_finish(s, frame[s].callback, frame[s].final_article)
    /\ Goto(s, "loop")
    /\ UNCHANGED <<proxy_vars, tool_vars, queries, submissions, active_sessions, results_cache, socketio_instance, global_callback, calls>>

\* crew.py:910-919
CrewFinish(s) ==
    /\ At(s, "crew_finish")
    /\ on_crew_finish(s, frame[s].callback, frame[s].final_article)
    /\ frame' = [frame EXCEPT
            ![s].result = SuccessResult(frame[s].topic, frame[s].final_article,
                                        frame[s].iteration, s),
            ![s].pc = "async_format"]
    /\ UNCHANGED <<proxy_vars, tool_vars, queries, submissions, active_sessions, results_cache, socketio_instance, global_callback, calls>>

\* crew.py:960-970
RunExcept(s) ==
    /\ At(s, "run_except")
    /\ LET error_msg == CrewErrorMsg(frame[s].exc) IN
       /\ on_error(s, frame[s].callback, error_msg)
       /\ frame' = [frame EXCEPT
               ![s].result = ErrorResult(frame[s].topic, error_msg, s),
               ![s].error_msg = error_msg,
               ![s].pc = "async_format"]
    /\ UNCHANGED <<proxy_vars, tool_vars, queries, submissions, active_sessions, results_cache, socketio_instance, global_callback, calls>>

----------------------------------------------------------------------------
(* app.py: run_crew_async after generate_news_article has returned *)

\* app.py:319-325: the post-processor runs on a non-empty article of a success;
\* if it raises, the article is kept as it is
AsyncFormat(s) ==
    /\ At(s, "async_format")
    /\ LET result == frame[s].result IN
       \/ /\ result.status = "success" /\ Truthy(result, "article")
          /\ \E e \in FormatFailures : Goto(s, "async_status")
       \/ /\ result.status = "success" /\ Truthy(result, "article")
          /\ frame' = [frame EXCEPT
                  ![s].result = DictSet(result, "article", format_news_article(result.article)),
                  ![s].pc = "async_status"]
       \/ /\ ~(result.status = "success" /\ Truthy(result, "article"))
          /\ Goto(s, "async_status")
    /\ UNCHANGED <<proxy_vars, tool_vars, client_vars, active_sessions, results_cache, socketio_instance, global_callback,
                   callback_objs, events, calls>>

\* AsyncStatus writing the status into every entry of the registry
AsyncStatus_allSessions(s) ==
    /\ At(s, "async_status")
    /\ active_sessions' = [t \in DOMAIN active_sessions |->
                              DictSet(active_sessions[t], "status", frame[s].result.status)]
    /\ Goto(s, "async_finished_at")
    /\ UNCHANGED <<proxy_vars, tool_vars, client_vars, results_cache, socketio_instance, global_callback, callback_objs,
                   events, calls>>

\* app.py:328
AsyncStatus(s) ==
    /\ At(s, "async_status")
    /\ active_sessions' = [active_sessions EXCEPT ![s] =
                              DictSet(@, "status", frame[s].result.status)]
    /\ Goto(s, "async_finished_at")
    /\ UNCHANGED <<proxy_vars, tool_vars, client_vars, results_cache, socketio_instance, global_callback, callback_objs,
                   events, calls>>

\* app.py:329
AsyncFinishedAt(s) ==
    /\ At(s, "async_finished_at")
    /\ active_sessions' = [active_sessions EXCEPT ![s] = DictSet(@, "finished_at", "now")]
    /\ Goto(s, "async_cache")
    /\ UNCHANGED <<proxy_vars, tool_vars, client_vars, results_cache, socketio_instance, global_callback, callback_objs,
                   events, calls>>

\* app.py:332
AsyncCache(s) ==
    /\ At(s, "async_cache")
    /\ results_cache' = DictSet(results_cache, s, frame[s].result)
    /\ Goto(s, "async_emit")
    /\ UNCHANGED <<proxy_vars, tool_vars, client_vars, active_sessions, socketio_instance, global_callback, callback_objs,
                   events, calls>>

\* app.py:335: the final event goes to the session's room; socketio.emit may raise
AsyncEmit(s) ==
    /\ At(s, "async_emit")
    /\ \/ /\ events' = [events EXCEPT ![s] =
                 Append(@, [name |-> "generation_complete", room |-> s,
                            payload |-> frame[s].result])]
          /\ clients' = Deliver(s, "generation_complete", s)
          /\ Goto(s, "done")
       \/ /\ \E e \in EmitFailures :
                frame' = [frame EXCEPT ![s].exc = e, ![s].pc = "async_except"]
          /\ UNCHANGED <<events, clients>>
    /\ UNCHANGED <<proxy_vars, tool_vars, queries, submissions, active_sessions, results_cache, socketio_instance, global_callback,
                   callback_objs, calls>>

\* app.py:339-349: the handler emits generation_error; if that emit raises too, the
\* exception leaves the thread
AsyncExcept(s) ==
    /\ At(s, "async_except")
    /\ LET error_msg == AsyncErrorMsg(frame[s].exc) IN
       \/ /\ events' = [events EXCEPT ![s] =
                 Append(@, [name |-> "generation_error", room |-> s,
                            payload |-> [session_id |-> s, error |-> error_msg]])]
          /\ clients' = Deliver(s, "generation_error", s)
          /\ frame' = [frame EXCEPT ![s].error_msg = error_msg, ![s].pc = "except_status"]
       \/ /\ \E e \in EmitFailures :
                frame' = [frame EXCEPT ![s].error_msg = error_msg, ![s].exc = e,
                                       ![s].pc = "crashed"]
          /\ UNCHANGED <<events, clients>>
    /\ UNCHANGED <<proxy_vars, tool_vars, queries, submissions, active_sessions, results_cache, socketio_instance, global_callback,
                   callback_objs, calls>>

\* app.py:352
ExceptStatus(s) ==
    /\ At(s, "except_status")
    /\ active_sessions' = [active_sessions EXCEPT ![s] = DictSet(@, "status", "error")]
    /\ Goto(s, "except_error")
    /\ UNCHANGED <<proxy_vars, tool_vars, client_vars, results_cache, socketio_instance, global_callback, callback_objs,
                   events, calls>>

\* app.py:353
ExceptError(s) ==
    /\ At(s, "except_error")
    /\ active_sessions' = [active_sessions EXCEPT ![s] =
                              DictSet(@, "error", frame[s].error_msg)]
    /\ Goto(s, "done")
    /\ UNCHANGED <<proxy_vars, tool_vars, client_vars, results_cache, socketio_instance, global_callback, callback_objs,
                   events, calls>>

----------------------------------------------------------------------------
(* app.py: the Socket.IO handlers of the namespace /agents and get_result *)

\* HandleConnect made to wait while a session thread is inside a kickoff()
HandleConnect_waitsForWorkers ==
    LET c == Cardinality(DOMAIN clients) + 1 IN
    /\ \A t \in Threads : frame[t].pc # "research_kickoff"
    /\ c <= MaxClients
    /\ clients' = DictSet(clients, c,
           [rooms |-> {}, joins |-> 0,
            inbox |-> <<[name |-> "connected", session |-> 0, index |-> 0]>>])
    /\ UNCHANGED <<proxy_vars, tool_vars, queries, submissions, active_sessions, results_cache, socketio_instance,
                   global_callback, callback_objs, frame, events, calls>>

\* app.py:227-239: a client connects to the namespace
HandleConnect ==
    LET c == Cardinality(DOMAIN clients) + 1 IN
    /\ c <= MaxClients
    /\ clients' = DictSet(clients, c,
           [rooms |-> {}, joins |-> 0,
            inbox |-> <<[name |-> "connected", session |-> 0, index |-> 0]>>])
    /\ UNCHANGED <<proxy_vars, tool_vars, queries, submissions, active_sessions, results_cache, socketio_instance,
                   global_callback, callback_objs, frame, events, calls>>

\* the session ids a client may give: none (0), a registered one, one never given out
AskedIds == 0..(MaxSessions + 1)

\* app.py:253-282: join_session with data.get("session_id") = session_id. The
\* emit() of a handler goes to the client that sent the message alone; its inbox
\* entry names the session id the client gave and no position in a thread's log.
HandleJoinSession(c, session_id) ==
    /\ c \in DOMAIN clients
    /\ clients[c].joins < MaxJoins
    /\ LET counted == [clients EXCEPT ![c].joins = @ + 1] IN
       IF session_id = 0 \/ session_id \notin DOMAIN active_sessions
       THEN clients' = [counted EXCEPT ![c].inbox =
                Append(@, [name |-> "error", session |-> session_id, index |-> 0])]
       ELSE clients' = [counted EXCEPT
                ![c].rooms = @ \cup {session_id},
                ![c].inbox = Append(@, [name |-> "joined_session",
                                        session |-> session_id, index |-> 0])]
    /\ UNCHANGED <<proxy_vars, tool_vars, queries, submissions, active_sessions, results_cache, socketio_instance,
                   global_callback, callback_objs, frame, events, calls>>

\* the response of get_result to query q
Respond(q, http, body) ==
    queries' = [queries EXCEPT ![q].pc = "done", ![q].http = http, ![q].body = body]

\* app.py:187-206: GET /api/result/<session_id> arrives and the registry is looked
\* up. 'published' notes how many events of that session had been published when
\* the request arrived.
GetResultLookup(session_id) ==
    LET q == Cardinality(DOMAIN queries) + 1
        known == session_id \in DOMAIN active_sessions
    IN  /\ q <= MaxQueries
        /\ queries' = DictSet(queries, q,
              IF known
              THEN [pc |-> "result_cache", session_id |-> session_id,
                    published |-> Len(events[session_id]),
                    http |-> 0, body |-> EmptyDict]
              ELSE [pc |-> "done", session_id |-> session_id, published |-> 0,
                    http |-> 404,
                    body |-> [status |-> "error", message |-> "Sesion no encontrada"]])
        /\ UNCHANGED <<proxy_vars, tool_vars, clients, submissions, active_sessions, results_cache,
                       socketio_instance, global_callback, callback_objs, frame,
                       events, calls>>

\* app.py:209-210
GetResultCache(q) ==
    /\ q \in DOMAIN queries
    /\ queries[q].pc = "result_cache"
    /\ IF queries[q].session_id \in DOMAIN results_cache
       THEN Respond(q, 200, results_cache[queries[q].session_id])
       ELSE queries' = [queries EXCEPT ![q].pc = "result_status"]
    /\ UNCHANGED <<proxy_vars, tool_vars, clients, submissions, active_sessions, results_cache, socketio_instance,
                   global_callback, callback_objs, frame, events, calls>>

\* app.py:213-219: session_info is the registry's own dict, read now
GetResultStatus(q) ==
    /\ q \in DOMAIN queries
    /\ queries[q].pc = "result_status"
    /\ LET session_info == active_sessions[queries[q].session_id] IN
       Respond(q, 200, [status |-> session_info.status, topic |-> session_info.topic,
                        started_at |-> session_info.started_at])
    /\ UNCHANGED <<proxy_vars, tool_vars, clients, submissions, active_sessions, results_cache, socketio_instance,
                   global_callback, callback_objs, frame, events, calls>>

----------------------------------------------------------------------------
(* The system: requests arrive and session threads run, in any interleaving *)

SessionIds == 1..MaxSessions

Next ==
    \/ GenerateArticle
    \/ \E s \in SessionIds : GetCallbackTest(s)
    \/ \E s \in SessionIds : GetCallbackMake(s)
    \/ \E s \in SessionIds : NewsCrewInit(s)
    \/ \E s \in SessionIds : LoopHead(s)
    \/ \E s \in SessionIds : ResearchStart(s)
    \/ \E s \in SessionIds : ResearchKickoff(s)
    \/ \E s \in SessionIds : ResearchFinish(s)
    \/ \E s \in SessionIds : AnalysisStart(s)
    \/ \E s \in SessionIds : AnalysisKickoff(s)
    \/ \E s \in SessionIds : AnalysisFinish(s)
    \/ \E s \in SessionIds : Decide(s)
    \/ \E s \in SessionIds : Backtrack(s)
    \/ \E s \in SessionIds : WritingStart(s)
    \/ \E s \in SessionIds : WritingKickoff(s)
    \/ \E s \in SessionIds : WritingFinish(s)
    \/ \E s \in SessionIds : CrewFinish(s)
    \/ \E s \in SessionIds : RunExcept(s)
    \/ \E s \in SessionIds : AsyncFormat(s)
    \/ \E s \in SessionIds : AsyncStatus(s)
    \/ \E s \in SessionIds : AsyncFinishedAt(s)
    \/ \E s \in SessionIds : AsyncCache(s)
    \/ \E s \in SessionIds : AsyncEmit(s)
    \/ \E s \in SessionIds : AsyncExcept(s)
    \/ \E s \in SessionIds : ExceptStatus(s)
    \/ \E s \in SessionIds : ExceptError(s)

Spec == Init /\ [][Next]_vars

\* the steps of the thread of session s (app.py:298-353 and what it calls)
ThreadStep(s) ==
    \/ GetCallbackTest(s) \/ GetCallbackMake(s) \/ NewsCrewInit(s)
    \/ LoopHead(s) \/ ResearchStart(s) \/ ResearchKickoff(s) \/ ResearchFinish(s)
    \/ AnalysisStart(s) \/ AnalysisKickoff(s) \/ AnalysisFinish(s)
    \/ Decide(s) \/ Backtrack(s)
    \/ WritingStart(s) \/ WritingKickoff(s) \/ WritingFinish(s)
    \/ CrewFinish(s) \/ RunExcept(s)
    \/ AsyncFormat(s) \/ AsyncStatus(s) \/ AsyncFinishedAt(s) \/ AsyncCache(s)
    \/ AsyncEmit(s) \/ AsyncExcept(s) \/ ExceptStatus(s) \/ ExceptError(s)

\* app.py:166-168: each session runs on a started thread of its own, which the
\* interpreter keeps scheduling while it has a step to take; every kickoff()
\* returns or raises
SpecFair == Init /\ [][Next]_vars /\ \A s \in SessionIds : WF_vars(ThreadStep(s))

----------------------------------------------------------------------------
(* The proxy process: one call of call_ralf_with_retry *)

NextRetry ==
    \/ RalfCall
    \/ RalfLoopHead
    \/ RalfPost
    \/ RalfBackoff

SpecRetry == Init /\ [][NextRetry]_vars

\* a streaming response of the proxy
NextStream ==
    \/ StreamOpen
    \/ StreamLine
    \/ StreamRaise
    \/ StreamEnd

SpecStream == Init /\ [][NextStream]_vars

----------------------------------------------------------------------------
(* The first cycle of the first session's run, up to the branch on the       *)
(* verdict, with Validator texts built from fragments that hold the tokens   *)
(* whole, split and in lower case.                                           *)

Fragments ==
    << <<"A", "P", "R", "O", "B", "A", "D", "O">>,
       <<"a", "p", "r", "o", "b", "a", "d", "o">>,
       <<"R", "e", "c", "h", "a", "z", "a", "d", "o">>,
       <<"A", "P", "R", "O", "B", "A">>,
       <<"D", "O">>,
       <<" ", "n", "o", " ">> >>

RECURSIVE Flatten(_)
Flatten(fs) == IF fs = << >> THEN << >> ELSE Fragments[Head(fs)] \o Flatten(Tail(fs))

VerdictTexts ==
    { Flatten(fs) : fs \in UNION { [1..n -> 1..Len(Fragments)] : n \in 0..MaxFragments } }

NextVerdict ==
    \/ active_sessions = EmptyDict /\ GenerateArticle
    \/ \E s \in SessionIds : GetCallbackTest(s)
    \/ \E s \in SessionIds : GetCallbackMake(s)
    \/ \E s \in SessionIds : NewsCrewInit(s)
    \/ \E s \in SessionIds : At(s, "loop") /\ frame[s].iteration = 0 /\ LoopHead(s)
    \/ \E s \in SessionIds : ResearchStart(s)
    \/ \E s \in SessionIds : ResearchKickoff(s)
    \/ \E s \in SessionIds : ResearchFinish(s)
    \/ \E s \in SessionIds : AnalysisStart(s)
    \/ \E s \in SessionIds : AnalysisKickoffFrom(s, VerdictTexts)
    \/ \E s \in SessionIds : AnalysisFinish(s)
    \/ \E s \in SessionIds : Decide(s)

SpecVerdict == Init /\ [][NextVerdict]_vars

----------------------------------------------------------------------------
(* A session thread together with the clients of the web application.  The  *)
(* thread runs the first cycle of its pipeline and everything that follows  *)
(* it in run_crew_async.                                                    *)

FirstLoopHead(s) == At(s, "loop") /\ frame[s].iteration = 0 /\ LoopHead(s)

FirstCycleStep(s) ==
    \/ GetCallbackTest(s)
    \/ GetCallbackMake(s)
    \/ NewsCrewInit(s)
    \/ FirstLoopHead(s)
    \/ ResearchStart(s)
    \/ ResearchKickoff(s)
    \/ ResearchFinish(s)
    \/ AnalysisStart(s)
    \/ AnalysisKickoff(s)
    \/ AnalysisFinish(s)
    \/ Decide(s)
    \/ Backtrack(s)
    \/ WritingStart(s)
    \/ WritingKickoff(s)
    \/ WritingFinish(s)
    \/ CrewFinish(s)
    \/ RunExcept(s)
    \/ AsyncFormat(s)
    \/ AsyncStatus(s)
    \/ AsyncFinishedAt(s)
    \/ AsyncCache(s)
    \/ AsyncEmit(s)
    \/ AsyncExcept(s)
    \/ ExceptStatus(s)
    \/ ExceptError(s)

\* a session thread and status queries
NextQuery ==
    \/ GenerateArticle
    \/ \E s \in SessionIds : FirstCycleStep(s)
    \/ \E session_id \in AskedIds \ {0} : GetResultLookup(session_id)
    \/ \E q \in 1..MaxQueries : GetResultCache(q)
    \/ \E q \in 1..MaxQueries : GetResultStatus(q)

SpecQuery == Init /\ [][NextQuery]_vars

\* a session thread and Socket.IO clients
NextBus ==
    \/ GenerateArticle
    \/ \E s \in SessionIds : FirstCycleStep(s)
    \/ HandleConnect
    \/ \E c \in 1..MaxClients, session_id \in AskedIds : HandleJoinSession(c, session_id)

SpecBus == Init /\ [][NextBus]_vars

\* session threads that start concurrently, each up to its first event
NextStart ==
    \/ GenerateArticleUpTo(MaxStarts)
    \/ \E s \in 1..MaxStarts : GetCallbackTest(s)
    \/ \E s \in 1..MaxStarts : GetCallbackMake(s)
    \/ \E s \in 1..MaxStarts : NewsCrewInit(s)
    \/ \E s \in 1..MaxStarts : FirstLoopHead(s)
    \/ \E s \in 1..MaxStarts : ResearchStart(s)

SpecStart == Init /\ [][NextStart]_vars

\* the steps of a session thread up to the end of its first research stage
ResearchStep(s) ==
    \/ GetCallbackTest(s)
    \/ GetCallbackMake(s)
    \/ NewsCrewInit(s)
    \/ FirstLoopHead(s)
    \/ ResearchStart(s)
    \/ ResearchKickoff(s)
    \/ ResearchFinish(s)

\* concurrent session threads, each up to the end of its first research stage,
\* with a status query and a Socket.IO client
NextSuspend ==
    \/ GenerateArticleUpTo(MaxStarts)
    \/ \E s \in 1..MaxStarts : ResearchStep(s)
    \/ \E session_id \in 1..MaxStarts : GetResultLookup(session_id)
    \/ \E q \in 1..MaxQueries : GetResultCache(q)
    \/ \E q \in 1..MaxQueries : GetResultStatus(q)
    \/ HandleConnect
    \/ \E c \in 1..MaxClients, session_id \in 1..MaxStarts : HandleJoinSession(c, session_id)

SpecSuspend == Init /\ [][NextSuspend]_vars

\* concurrent session threads, each through the first cycle of its pipeline
\* and what follows it in run_crew_async
NextPair ==
    \/ GenerateArticleUpTo(MaxStarts)
    \/ \E s \in 1..MaxStarts : FirstCycleStep(s)

SpecPair == Init /\ [][NextPair]_vars

\* the steps of generate_news_article up to the return of NewsCrew.run
RunStep(s) ==
    \/ GetCallbackTest(s) \/ GetCallbackMake(s) \/ NewsCrewInit(s)
    \/ LoopHead(s) \/ ResearchStart(s) \/ ResearchKickoff(s) \/ ResearchFinish(s)
    \/ AnalysisStart(s) \/ AnalysisKickoff(s) \/ AnalysisFinish(s)
    \/ Decide(s) \/ Backtrack(s)
    \/ WritingStart(s) \/ WritingKickoff(s) \/ WritingFinish(s)
    \/ CrewFinish(s) \/ RunExcept(s)

\* direct calls of generate_news_article
NextDate ==
    \/ GenerateNewsArticleCall
    \/ \E s \in SessionIds : RunStep(s)

SpecDate == Init /\ [][NextDate]_vars

\* any request to POST /api/generate, and the threads of the accepted ones up
\* to their first event
NextSubmit ==
    \/ \E body \in Bodies : GenerateArticleOf(body, MaxSessions)
    \/ \E s \in SessionIds : GetCallbackTest(s)
    \/ \E s \in SessionIds : GetCallbackMake(s)
    \/ \E s \in SessionIds : NewsCrewInit(s)
    \/ \E s \in SessionIds : FirstLoopHead(s)
    \/ \E s \in SessionIds : ResearchStart(s)

SpecSubmit == Init /\ [][NextSubmit]_vars

----------------------------------------------------------------------------
(* Properties *)

CallsOf(s, worker) == {i \in DOMAIN calls[s] : calls[s][i].worker = worker}

EventsNamed(s, names) == {i \in DOMAIN events[s] : events[s][i].name \in names}

\* the thread of session s has ended (returned, or died of an exception)
Finished(s) == frame[s].pc \in {"done", "crashed"}

Terminal == {"success", "error"}

\* C1: a run starts between 1 and MAX_ITERATIONS cycles: the Researcher is invoked
\* at most MAX_ITERATIONS times, a run that has returned has invoked it at least
\* once, and the 'iterations' of a success lies in 1..MAX_ITERATIONS.
C1_CyclesBounded ==
    \A s \in Threads :
        /\ Cardinality(CallsOf(s, "Researcher")) <= MAX_ITERATIONS
        /\ frame[s].iteration <= MAX_ITERATIONS
        /\ \A i \in CallsOf(s, "Researcher") : calls[s][i].iteration \in 1..MAX_ITERATIONS
        /\ DOMAIN frame[s].result # {} =>
              /\ Cardinality(CallsOf(s, "Researcher")) >= 1
              /\ frame[s].iteration >= 1
        /\ "iterations" \in DOMAIN frame[s].result =>
              frame[s].result.iterations \in 1..MAX_ITERATIONS
        /\ (s \in DOMAIN results_cache /\ "iterations" \in DOMAIN results_cache[s]) =>
              results_cache[s].iterations \in 1..MAX_ITERATIONS

\* a session that succeeded in its last allowed cycle, after MAX_ITERATIONS researches
C1_Witness ==
    \E s \in Threads :
        /\ frame[s].pc = "done"
        /\ Cardinality(CallsOf(s, "Researcher")) = MAX_ITERATIONS
        /\ s \in DOMAIN results_cache
        /\ results_cache[s].status = "success"
        /\ results_cache[s].iterations = MAX_ITERATIONS

\* the text is an approval: after upper() it holds APROBADO and not RECHAZADO
IsApproval(text) ==
    Contains(Upper(text), APROBADO) /\ ~Contains(Upper(text), RECHAZADO)

\* C2: the Composer is invoked only right after a Validator call of the same cycle
\* that returned an approval, and at most once in a session.
C2_ComposerOnlyOnApproval ==
    \A s \in Threads :
        /\ Cardinality(CallsOf(s, "Composer")) <= 1
        /\ \A i \in CallsOf(s, "Composer") :
              /\ i > 1
              /\ calls[s][i - 1].worker = "Validator"
              /\ calls[s][i - 1].iteration = calls[s][i].iteration
              /\ ~calls[s][i - 1].raised
              /\ IsApproval(calls[s][i - 1].output)
        /\ (\A i \in CallsOf(s, "Validator") :
                calls[s][i].raised \/ ~IsApproval(calls[s][i].output))
              => CallsOf(s, "Composer") = {}

\* the Composer has been invoked in the second cycle, after a cycle that was not approved
C2_Witness ==
    \E s \in Threads :
        \E i \in CallsOf(s, "Composer") :
            /\ calls[s][i].iteration = 2
            /\ \E j \in CallsOf(s, "Validator") :
                  calls[s][j].iteration = 1 /\ ~IsApproval(calls[s][j].output)

\* C3: when the thread of a session has ended, a stored status success comes with a
\* non-empty article and no error, and a stored status error comes with a
\* non-empty error and no article.
C3_OutcomeMatchesStatus ==
    \A s \in Threads :
        Finished(s) =>
            LET info == active_sessions[s]
                cached == IF s \in DOMAIN results_cache THEN results_cache[s] ELSE EmptyDict
            IN  /\ info.status = "success" =>
                      /\ Truthy(cached, "article")
                      /\ "error" \notin DOMAIN cached
                      /\ "error" \notin DOMAIN info
                /\ info.status = "error" =>
                      /\ Truthy(cached, "error") \/ Truthy(info, "error")
                      /\ "article" \notin DOMAIN cached

\* C4: a terminal status of the registry never changes.
C4_TerminalStatusFinal ==
    [][\A s \in DOMAIN active_sessions :
          active_sessions[s].status \in Terminal
              => active_sessions'[s].status = active_sessions[s].status]_vars

\* C5: when a worker invocation raises, it is the last worker invocation of the
\* session; once the handler has run exactly one error event has been published,
\* carrying the failure's message; and when the thread has ended the session is
\* stored as error with an error text that holds the message and no article. No
\* error event is published without a worker failure.
C5_WorkerFailureEndsSession ==
    \A s \in Threads :
        /\ \A i \in DOMAIN calls[s] :
              calls[s][i].raised =>
                  /\ i = Len(calls[s])
                  /\ frame[s].pc # "run_except" =>
                        /\ Cardinality(EventsNamed(s, {"error"})) = 1
                        /\ \A k \in EventsNamed(s, {"error"}) :
                              Contains(events[s][k].payload.error, calls[s][i].output)
                  /\ Finished(s) =>
                        /\ active_sessions[s].status = "error"
                        /\ s \in DOMAIN results_cache
                        /\ results_cache[s].status = "error"
                        /\ "error" \in DOMAIN results_cache[s]
                        /\ Contains(results_cache[s].error, calls[s][i].output)
                        /\ "article" \notin DOMAIN results_cache[s]
        /\ EventsNamed(s, {"error"}) # {} =>
              \E i \in DOMAIN calls[s] : calls[s][i].raised

\* the Composer raised in the second cycle and the session's thread has ended
C5_Witness ==
    \E s \in Threads :
        /\ frame[s].pc = "done"
        /\ calls[s] # << >>
        /\ calls[s][Len(calls[s])].raised
        /\ calls[s][Len(calls[s])].worker = "Composer"
        /\ calls[s][Len(calls[s])].iteration = 2

\* the Validator calls of the last allowed cycle that returned no approval
LastCycleRefusals(s) ==
    {i \in CallsOf(s, "Validator") :
        /\ calls[s][i].iteration = MAX_ITERATIONS
        /\ ~calls[s][i].raised
        /\ ~IsApproval(calls[s][i].output)}

\* C6: when the last allowed cycle ends without approval (Rejected or Ambiguous),
\* the session is stored as error, the error text holds that cycle's Validator
\* output, and an error event has been published.
C6_ExhaustionReportsFeedback ==
    \A s \in Threads :
        Finished(s) =>
            \A i \in LastCycleRefusals(s) :
                /\ active_sessions[s].status = "error"
                /\ s \in DOMAIN results_cache
                /\ "error" \in DOMAIN results_cache[s]
                /\ Contains(results_cache[s].error, calls[s][i].output)
                /\ EventsNamed(s, {"error", "generation_error"}) # {}

\* C7: when a cycle after the first has published its research stage-start, the
\* event before it is the one backtrack event of the cycle before, carrying the
\* excerpt of that cycle's Validator output, and the topic the Researcher gets is
\* the previous topic amended by that output.
C7_BacktrackBeforeNextCycle ==
    \A s \in Threads :
        (frame[s].pc = "research_kickoff" /\ frame[s].iteration >= 2) =>
            LET n == Len(events[s])
                prev == calls[s][Len(calls[s]) - 1]
            IN  /\ n >= 2
                /\ events[s][n].name = "agent_start"
                /\ events[s][n - 1].name = "backtracking"
                /\ events[s][n - 1].payload.feedback
                      = Take(frame[s].analysis_result, BacktrackPreviewLen)
                /\ Cardinality(EventsNamed(s, {"backtracking"})) = frame[s].iteration - 1
                /\ prev.worker = "Researcher"
                /\ frame[s].topic = RefinedTopic(prev.input, frame[s].analysis_result)

\* C8: the branch taken on a Validator text: the Composer stage iff the upper-cased
\* text holds APROBADO and not RECHAZADO, the rejection branch iff it holds
\* RECHAZADO (also beside APROBADO), the ambiguous branch otherwise.
C8_VerdictRule ==
    \A s \in Threads :
        LET text == Upper(frame[s].analysis_result)
            approved == frame[s].pc = "writing_start"
            rejected == frame[s].pc = "backtracking"
            ambiguous == frame[s].pc = "loop" /\ frame[s].iteration = 1
        IN  (approved \/ rejected \/ ambiguous) =>
                /\ approved <=> (Contains(text, APROBADO) /\ ~Contains(text, RECHAZADO))
                /\ rejected <=> Contains(text, RECHAZADO)
                /\ ambiguous <=> (~Contains(text, APROBADO) /\ ~Contains(text, RECHAZADO))

\* a text in mixed case that holds both tokens has been taken as a rejection
C8_Witness ==
    \E s \in Threads :
        /\ frame[s].pc = "backtracking"
        /\ frame[s].analysis_result # Upper(frame[s].analysis_result)
        /\ Contains(Upper(frame[s].analysis_result), APROBADO)
        /\ Contains(Upper(frame[s].analysis_result), RECHAZADO)

OrchestratorTerminal == {"crew_finish", "error"}
FinalEvents == {"generation_complete", "generation_error"}

\* C9 as claimed: the orchestrator's terminal event (crew_finish, error) is the last
\* event of its session.
C9_TerminalEventLast ==
    \A s \in Threads :
        \A i \in EventsNamed(s, OrchestratorTerminal) : i = Len(events[s])

\* C9 amended: after the orchestrator's terminal event the only events of the
\* session are final events of run_crew_async, and a final event is the last event.
C9_OnlyFinalEventFollows ==
    \A s \in Threads :
        /\ \A i \in EventsNamed(s, OrchestratorTerminal) :
              \A j \in DOMAIN events[s] : j > i => events[s][j].name \in FinalEvents
        /\ \A i \in EventsNamed(s, FinalEvents) : i = Len(events[s])

\* crew_finish has been published and generation_complete after it
C9_Witness ==
    \E s \in Threads :
        LET n == Len(events[s]) IN
        /\ n >= 2
        /\ events[s][n - 1].name = "crew_finish"
        /\ events[s][n].name = "generation_complete"

\* the events the orchestrator's callbacks published, in order
CallbackEvents(s) == SelectSeq(events[s], LAMBDA e : e.name \notin FinalEvents)

IsStart(e, agent) == e.name = "agent_start" /\ e.payload.agent = agent
IsFinish(e, agent) == e.name = "agent_finish" /\ e.payload.agent = agent

\* the event f may directly follow the event e
Follows(e, f) ==
    \/ /\ e.name = "agent_start"
       /\ IsFinish(f, e.payload.agent) \/ f.name = "error"
    \/ IsFinish(e, Investigador) /\ IsStart(f, Analista)
    \/ IsFinish(e, Analista) /\ (IsStart(f, Redactor) \/ f.name = "backtracking")
    \/ IsFinish(e, Redactor) /\ f.name = "crew_finish"
    \/ e.name = "backtracking" /\ IsStart(f, Investigador)

\* C10: the orchestrator's events follow the state machine: research start and
\* finish, validation start and finish, then compose start, finish and
\* crew_finish, or backtrack and the next research start; a stage that fails is
\* followed by error.
C10_StateMachineOrder ==
    \A s \in Threads :
        LET log == CallbackEvents(s) IN
        /\ log # << >> => IsStart(log[1], Investigador)
        /\ \A i \in 1..(Len(log) - 1) : Follows(log[i], log[i + 1])

----------------------------------------------------------------------------
(* Properties of call_ralf_with_retry *)

\* the request of log entry x failed: no status of the success range came back
Failed(x) == x.kind = "request" /\ (x.outcome.raised \/ ~IsSuccess(x.outcome.status_code))

\* the failure of the request of log entry x is one to try again after: a 429, a
\* 5xx, or an exception of the network level
Retryable(x) ==
    /\ x.kind = "request"
    /\ \/ x.outcome.raised
       \/ x.outcome.status_code = 429
       \/ 500 <= x.outcome.status_code /\ x.outcome.status_code < 600

\* the error dict that classifies the failed request of log entry x
Classified(x) ==
    IF x.outcome.raised THEN ConnectionError(x.outcome.text)
    ELSE IF IsClientError(x.outcome.status_code) THEN ClientError(x.outcome)
    ELSE TemporalError(x.outcome)

\* C11: one call sends at most MAX_RETRIES requests, one for each attempt index
\* 0..MAX_RETRIES-1; the attempt counter never exceeds MAX_RETRIES, and once
\* MAX_RETRIES requests have failed the call sends nothing more.
C11_AttemptsBounded ==
    /\ Len(RequestsSent) <= MAX_RETRIES
    /\ ralf.attempt <= MAX_RETRIES
    /\ \A i \in DOMAIN RequestsSent : RequestsSent[i].attempt = i - 1
    /\ Len(RequestsSent) = MAX_RETRIES => ralf.pc \in {"backoff", "loop", "returned"}

\* the call has returned after MAX_RETRIES requests
C11_Witness ==
    /\ ralf.pc = "returned"
    /\ Len(RequestsSent) = MAX_RETRIES

\* C12: a request answered with a 4xx other than 429 is the last thing the call
\* does: no request and no sleep follows it, the call has returned no response and
\* the client error with that status code.
C12_ClientErrorReturnsAtOnce ==
    \A i \in DOMAIN ralf.log :
        LET x == ralf.log[i] IN
        (/\ x.kind = "request"
         /\ ~x.outcome.raised
         /\ 400 <= x.outcome.status_code /\ x.outcome.status_code < 500
         /\ x.outcome.status_code # 429)
        => /\ i = Len(ralf.log)
           /\ ralf.pc = "returned"
           /\ ralf.response = NoResponse
           /\ ralf.error = ClientError(x.outcome)
           /\ ralf.error.status_code = x.outcome.status_code

\* a 404 on the third attempt, after two retried failures and two sleeps
C12_Witness ==
    /\ ralf.pc = "returned"
    /\ Len(ralf.log) = 5
    /\ ralf.log[5].kind = "request"
    /\ ralf.log[5].outcome.status_code = 404
    /\ ralf.error.status_code = 404

\* C13: a failed request is followed by another request if and only if attempts
\* remain and its failure was a 429, a 5xx or an exception of the network level.
C13_RetriedIffRetryable ==
    ralf.pc = "returned" =>
        \A i \in DOMAIN RequestsSent :
            Failed(RequestsSent[i]) =>
                (i < Len(RequestsSent) <=> (i < MAX_RETRIES /\ Retryable(RequestsSent[i])))

\* C14: when a request is answered with a status of the success range after k
\* failed ones, the call returns that response and no error, nothing follows the
\* request in the log, and the log before it is k times a failed request followed
\* by one sleep.
C14_SuccessAfterRetries ==
    \A i \in DOMAIN ralf.log :
        LET x == ralf.log[i] IN
        (x.kind = "request" /\ ~Failed(x))
        => /\ i = Len(ralf.log)
           /\ ralf.pc = "returned"
           /\ ralf.response = x.outcome
           /\ ralf.error = NoError
           /\ Len(DelaysSlept) = x.attempt
           /\ Len(RequestsSent) = x.attempt + 1
           /\ i = 2 * x.attempt + 1
           /\ \A j \in 1..(i - 1) :
                IF j % 2 = 1
                THEN Failed(ralf.log[j]) /\ ralf.log[j].attempt = (j - 1) \div 2
                ELSE ralf.log[j].kind = "sleep" /\ ralf.log[j].attempt = (j - 2) \div 2

\* two rate-limit answers, then success on the third attempt
C14_Witness ==
    /\ ralf.pc = "returned"
    /\ Len(RequestsSent) = 3
    /\ RequestsSent[1].outcome.status_code = 429
    /\ RequestsSent[2].outcome.status_code = 429
    /\ RequestsSent[3].outcome.status_code = 200
    /\ Len(DelaysSlept) = 2

\* C15: when all MAX_RETRIES attempts have failed with errors that are retried,
\* the call returns no response and the classified error of the last attempt.
C15_LastErrorReturned ==
    (/\ ralf.pc = "returned"
     /\ Len(RequestsSent) = MAX_RETRIES
     /\ Failed(RequestsSent[MAX_RETRIES])
     /\ ~(~RequestsSent[MAX_RETRIES].outcome.raised
          /\ IsClientError(RequestsSent[MAX_RETRIES].outcome.status_code)))
    => /\ ralf.response = NoResponse
       /\ ralf.error = Classified(RequestsSent[MAX_RETRIES])

\* five failures, the last two of different kinds
C15_Witness ==
    /\ ralf.pc = "returned"
    /\ Len(RequestsSent) = MAX_RETRIES
    /\ RequestsSent[MAX_RETRIES - 1].outcome.status_code = 429
    /\ RequestsSent[MAX_RETRIES].outcome.status_code = 500
    /\ ralf.error.status_code = 500

\* the largest delay: MAX_DELAY + MAX_DELAY * JITTER_RANGE
DelayCeiling == MAX_DELAY + (MAX_DELAY * JITTER_RANGE) \div 1000

\* C16: every delay slept is the jittered delay of its attempt and lies in
\* [MinDelay, MAX_DELAY + MAX_DELAY * JITTER_RANGE]; for every attempt index and
\* every draw the delay before jitter is min(MAX_DELAY, BASE_DELAY * 2^attempt),
\* is at most MAX_DELAY and does not decrease with the attempt, and the jittered
\* delay lies in the same range.
C16_DelayInRange ==
    /\ \A i \in DOMAIN DelaysSlept :
        LET x == DelaysSlept[i] IN
        /\ MinDelay <= x.delay /\ x.delay <= DelayCeiling
        /\ \E r \in RandomDraws : x.delay = FinalDelay(x.attempt, r)
    /\ \A attempt \in 0..MaxAttemptIndex :
        /\ Delay(attempt) = Min(MAX_DELAY, BASE_DELAY * Pow2(attempt))
        /\ Delay(attempt) <= MAX_DELAY
        /\ Delay(attempt) <= Delay(attempt + 1)
        /\ \A r \in RandomDraws :
            /\ MinDelay <= FinalDelay(attempt, r)
            /\ FinalDelay(attempt, r) <= DelayCeiling

\* the fourth failed attempt has been followed by a sleep longer than its delay
\* before jitter
C16_Witness ==
    \E i \in DOMAIN DelaysSlept :
        /\ DelaysSlept[i].attempt = MAX_RETRIES - 2
        /\ DelaysSlept[i].delay > Delay(MAX_RETRIES - 2)

----------------------------------------------------------------------------
(* Properties of the status query, the final event and the event channels *)

\* the queries that get_result has answered
Answered == {q \in DOMAIN queries : queries[q].pc = "done"}

\* C17: a response of get_result that reports success holds the article, one that
\* reports a failed session holds the error, and an id that is not registered is
\* answered with not-found.
C17_TerminalResponseHasOutcome ==
    \A q \in Answered :
        LET r == queries[q] IN
        /\ r.session_id \notin DOMAIN active_sessions => r.http = 404
        /\ (r.http = 200 /\ r.body.status = "success") => "article" \in DOMAIN r.body
        /\ (r.http = 200 /\ r.body.status = "error") => "error" \in DOMAIN r.body

\* the final event of session s is among its first n events
FinalPublished(s, n) == \E i \in 1..n : events[s][i].name \in FinalEvents

\* C18: once the final event of a session is published, the registry holds a
\* terminal status and the outcome (the cached result, or the error), and a status
\* query that arrived after the final event does not report the session running.
C18_RegistryBeforeFinalEvent ==
    /\ \A s \in Threads :
        FinalPublished(s, Len(events[s])) =>
            /\ active_sessions[s].status \in Terminal
            /\ s \in DOMAIN results_cache \/ "error" \in DOMAIN active_sessions[s]
    /\ \A q \in Answered :
        (/\ queries[q].http = 200
         /\ FinalPublished(queries[q].session_id, queries[q].published))
        => queries[q].body.status # "running"

\* C19: when a thread publishes an event for its session, a connected client
\* receives it if and only if the client has joined that session.
C19_DeliveredToSubscribersOnly ==
    [][\A s \in Threads : \A c \in DOMAIN clients :
          Len(events'[s]) = Len(events[s]) + 1 =>
              ((clients'[c].inbox =
                    Append(clients[c].inbox,
                           [name |-> events'[s][Len(events'[s])].name,
                            session |-> s, index |-> Len(events'[s])]))
               <=> s \in clients[c].rooms)]_vars

\* C20: the publisher a session thread holds is the one made for its session, and
\* every event the thread publishes carries the thread's own session id.
C20_OwnPublisher ==
    \A s \in Threads :
        /\ frame[s].callback \in {0, s}
        /\ \A i \in DOMAIN events[s] : events[s][i].payload.session_id = s

----------------------------------------------------------------------------
(* C21 *)

\* C21: every registered session eventually has a terminal status in the
\* registry, whatever the workers, the post-processor and the emits of
\* run_crew_async do; no session stays "running" for ever
C21_EverySessionTerminates ==
    \A s \in SessionIds :
        (s \in DOMAIN active_sessions)
            ~> (s \in DOMAIN active_sessions /\ active_sessions[s].status \in Terminal)

----------------------------------------------------------------------------
(* C22 *)

\* the bodies the claim speaks of: no body, no "topic", a topic that is empty
\* or whitespace only
Invalid(body) ==
    \/ ~body.json
    \/ ~body.has_topic
    \/ body.is_text /\ body.topic \in BlankTopics

\* C22: a submission without a body, without a "topic" field, or with an empty
\* or whitespace-only topic is answered with an error and no session id, and
\* it leaves the registry, the result cache and the threads as they were
C22_InvalidSubmissionRejected ==
    [][\A body \in Bodies :
          (Invalid(body) /\ Len(submissions') = Len(submissions) + 1
              /\ submissions'[Len(submissions')].body = body)
          => /\ submissions'[Len(submissions')].http \in {400, 500}
             /\ submissions'[Len(submissions')].status = "error"
             /\ submissions'[Len(submissions')].session_id = 0
             /\ UNCHANGED <<active_sessions, results_cache, frame, calls, events>>]_vars

\* a whitespace-only topic and a request without a body have been rejected
\* while a session was registered and running
C22_Witness ==
    /\ Len(submissions) = 3
    /\ submissions[1].http = 202
    /\ submissions[2].body = JsonWith(<<" ", "\t", " ">>) /\ submissions[2].http = 400
    /\ submissions[3].body = NoJson /\ submissions[3].http = 500
    /\ DOMAIN active_sessions = {1}
    /\ DOMAIN frame = {1}

----------------------------------------------------------------------------
(* C23 *)

\* C23: whatever the number of backtracks, the topic the caller sees, in the
\* result that get_result serves from the cache and in the final event, is the
\* topic that was submitted (the one the registry holds)
C23_CallerSeesSubmittedTopic ==
    \A s \in DOMAIN active_sessions :
        /\ s \in DOMAIN results_cache
              => results_cache[s].topic = active_sessions[s].topic
        /\ \A i \in EventsNamed(s, {"generation_complete"}) :
              events[s][i].payload.topic = active_sessions[s].topic

----------------------------------------------------------------------------
(* C24 *)

\* C24: the first event published for a session is the session-start event
\* (crew_start), and it is published exactly once
C24_SessionStartFirst ==
    \A s \in DOMAIN events :
        events[s] # << >>
            => /\ events[s][1].name = "crew_start"
               /\ Cardinality(EventsNamed(s, {"crew_start"})) = 1

----------------------------------------------------------------------------
(* C25 *)

\* format_news_article raised in the thread of session s: the thread is past
\* app.py:319-325 with an article that the post-processor would have changed
FormatRaised(s) ==
    /\ frame[s].pc \notin {"async_format"}
    /\ frame[s].result # EmptyDict
    /\ frame[s].result.status = "success"
    /\ Truthy(frame[s].result, "article")
    /\ frame[s].result.article = frame[s].final_article
    /\ format_news_article(frame[s].final_article) # frame[s].final_article

----------------------------------------------------------------------------
(* C26 *)

\* C26: a client that joins with a missing or unknown id, or with the id of a
\* session that has already ended, is answered at once with the not-found
\* event or with that session's final event; with a missing or unknown id it
\* is added to no room
C26_LateOrUnknownJoinAnswered ==
    [][\A c \in DOMAIN clients, session_id \in AskedIds :
          (/\ clients'[c].joins = clients[c].joins + 1
           /\ clients'[c].inbox[Len(clients'[c].inbox)].session = session_id)
          => LET reply == clients'[c].inbox[Len(clients'[c].inbox)] IN
             /\ session_id \notin DOMAIN active_sessions
                   => /\ reply.name = "error"
                      /\ clients'[c].rooms = clients[c].rooms
             /\ (/\ session_id \in DOMAIN active_sessions
                 /\ active_sessions[session_id].status \in Terminal)
                   => reply.name \in {"error"} \cup FinalEvents]_vars

----------------------------------------------------------------------------
(* C27 *)

\* the lines generate() has taken from the upstream response
LinesRead == SubSeq(stream.upstream, 1, stream.next - 1)

\* one chunk per line of ls
ChunksOf(ls) == [i \in 1..Len(ls) |-> Chunk(ls[i])]

\* C27 as stated: one chunk per upstream fragment, in upstream order, and
\* then the sentinel, once, as the last item of a stream that has ended
C27_ChunkPerFragmentThenSentinel ==
    /\ stream.pc \in {"iter", "raised"} => stream.out = ChunksOf(LinesRead)
    /\ stream.pc = "done"
          => /\ stream.next = Len(stream.upstream) + 1
             /\ stream.out = Append(ChunksOf(stream.upstream), Sentinel)

\* C27, amended: one chunk per upstream line that is not empty, in upstream
\* order; no sentinel while lines are read or after reading raised; when the
\* upstream is exhausted, the sentinel once, as the last item
C27_ChunkPerNonEmptyLineThenSentinel ==
    LET kept == SelectSeq(LinesRead, LAMBDA l : l # << >>) IN
    /\ stream.pc \in {"iter", "raised"} => stream.out = ChunksOf(kept)
    /\ stream.pc = "done"
          => /\ stream.next = Len(stream.upstream) + 1
             /\ stream.out = Append(ChunksOf(kept), Sentinel)

\* a stream of three lines, the second one empty, has ended with the sentinel
C27_Witness ==
    /\ stream.pc = "done"
    /\ stream.upstream = << <<"h", "o">>, << >>, <<"l", "a">> >>
    /\ Len(stream.out) = 3
    /\ stream.out[3] = Sentinel

----------------------------------------------------------------------------
(* C28 *)

\* the thread of session s is inside investigation_crew.kickoff() (crew.py:804):
\* the worker's call is blocked on the upstream service or on a retry delay of
\* the proxy (ralf_proxy.py:85-89)
Suspended(s) == At(s, "research_kickoff")

\* the positions at which a thread has a step in NextSuspend
ResearchPcs ==
    {"async_start", "callback_make", "callback_return", "loop",
     "research_start", "research_kickoff", "research_finish"}

----------------------------------------------------------------------------
(* C29 *)

\* C29: a step of the thread of session s changes, in the registry and in the
\* result cache, only the entries of s, whatever the other threads are doing
C29_OnlyOwnEntries ==
    [][\A s \in Threads :
          frame'[s] # frame[s]
              => /\ DOMAIN active_sessions' = DOMAIN active_sessions
                 /\ DOMAIN results_cache' \subseteq DOMAIN results_cache \cup {s}
                 /\ \A t \in DOMAIN active_sessions \ {s} :
                       /\ active_sessions'[t] = active_sessions[t]
                       /\ t \in DOMAIN results_cache
                             => /\ t \in DOMAIN results_cache'
                                /\ results_cache'[t] = results_cache[t]]_vars

\* two sessions have run at the same time and ended differently: session 1 as
\* a success with its article cached, session 2 as an error
C29_Witness ==
    /\ DOMAIN results_cache = {1, 2}
    /\ active_sessions[1].status = "success" /\ results_cache[1].status = "success"
    /\ active_sessions[2].status = "error" /\ results_cache[2].status = "error"
    /\ Finished(1) /\ Finished(2)

----------------------------------------------------------------------------
(* C30 *)

\* C30: a call of generate_news_article without a date works with today's
\* date, and its run does not fail for the lack of a date: it reaches the
\* Researcher invocation as a call with a valid date does
C30_MissingDateUsesToday ==
    \A s \in Threads :
        frame[s].date_arg.kind # "given"
            => /\ frame[s].exc # StrptimeError(frame[s].current_date)
               /\ CallsOf(s, "Researcher") # {} => frame[s].current_date = Today

----------------------------------------------------------------------------
(* C31 *)

\* C31: every Researcher and every Validator invocation of a session, in every
\* cycle, is given the as-of date that was fixed when the run started
C31_SameDateEveryCycle ==
    \A s \in Threads :
        \A i \in CallsOf(s, "Researcher") \cup CallsOf(s, "Validator") :
            /\ calls[s][i].current_date = ResolveDate(frame[s].date_arg)
            /\ calls[s][i].current_date = calls[s][1].current_date

\* a run started with a date that is not today's has backtracked twice: three
\* Researcher and three Validator invocations
C31_Witness ==
    \E s \in Threads :
        /\ frame[s].date_arg = GivenDate(EarlierDate)
        /\ Cardinality(CallsOf(s, "Researcher")) = MAX_ITERATIONS
        /\ Cardinality(CallsOf(s, "Validator")) = MAX_ITERATIONS
        /\ Cardinality(EventsNamed(s, {"backtracking"})) = MAX_ITERATIONS - 1

----------------------------------------------------------------------------
(* C32 *)

----------------------------------------------------------------------------
(* C33 *)

\* the topic followed by one refinement suffix for each Rejected verdict of vs,
\* in their order, each with the first FeedbackLen characters of its text
RECURSIVE WithSuffixes(_, _)
WithSuffixes(topic, vs) ==
    IF vs = << >> THEN topic
    ELSE WithSuffixes(
            IF Head(vs).verdict = "Rejected"
            THEN topic \o RefinamientoOpen
                       \o SubSeq(Head(vs).text, 1, Min(FeedbackLen, Len(Head(vs).text)))
                       \o RefinamientoClose
            ELSE topic,
            Tail(vs))

\* C33: the topic given to the Researcher in a cycle is the submitted topic
\* followed by one suffix per Rejected verdict of the cycles before it, in cycle
\* order, each holding at most the first 200 characters of that cycle's
\* Validator output; in cycle 1 it is the submitted topic itself
C33_TopicSuffixes ==
    \A s \in Threads :
        \A i \in CallsOf(s, "Researcher") :
            LET cycle == calls[s][i].iteration
                before == SelectSeq(frame[s].verdicts, LAMBDA v : v.iteration < cycle)
            IN  /\ calls[s][i].input = WithSuffixes(active_sessions[s].topic, before)
                /\ cycle = 1 => calls[s][i].input = active_sessions[s].topic

\* the Researcher of cycle 3 has been invoked after two Rejected verdicts whose
\* texts are longer than 200 characters
C33_Witness ==
    \E s \in Threads :
        \E i \in CallsOf(s, "Researcher") :
            /\ calls[s][i].iteration = MAX_ITERATIONS
            /\ Len(frame[s].verdicts) >= 2
            /\ frame[s].verdicts[1].verdict = "Rejected"
            /\ frame[s].verdicts[2].verdict = "Rejected"
            /\ Len(frame[s].verdicts[1].text) > FeedbackLen
            /\ Len(calls[s][i].input)
                  = Len(active_sessions[s].topic)
                    + 2 * (Len(RefinamientoOpen) + FeedbackLen + Len(RefinamientoClose))

----------------------------------------------------------------------------
(* C34 *)

\* generate_news_article has returned to its caller or has raised
Returned(s) == s \in Threads /\ frame[s].pc \in {"async_format", "async_except"}

\* callbacks.py:32-41: set_socketio(socketio), called by a script between two
\* runs (generate_news_article is synchronous)
SetSocketio ==
    /\ socketio_instance = NoTransport
    /\ Threads # {}
    /\ \A s \in Threads : Returned(s)
    /\ socketio_instance' = Connected
    /\ UNCHANGED <<proxy_vars, tool_vars, client_vars, active_sessions, results_cache,
                   global_callback, callback_objs, frame, events, calls>>

\* the transport's emit starts to raise, at any moment
TransportBreaks ==
    /\ socketio_instance = Connected
    /\ socketio_instance' = Broken
    /\ UNCHANGED <<proxy_vars, tool_vars, client_vars, active_sessions, results_cache,
                   global_callback, callback_objs, frame, events, calls>>

\* a script calls generate_news_article again, with the same arguments, after
\* the call before has returned
ScriptCall ==
    /\ \A s \in Threads : Returned(s)
    /\ GenerateNewsArticleCallOf({GivenDate(Today)}, MaxRuns)

\* the state of a script that has not injected a transport (callbacks.py:26)
InitScript == InitOf(NoTransport, NewRalfCall)

\* a run without a transport, then a run with a transport that may break
NextEmit ==
    \/ ScriptCall
    \/ SetSocketio
    \/ TransportBreaks
    \/ \E s \in 1..MaxRuns : RunStep(s)

SpecEmit == InitScript /\ [][NextEmit]_vars

\* what the workers of the first k invocations of thread s did
WorkerOutcomes(s, k) == [i \in 1..k |-> <<calls[s][i].raised, calls[s][i].output>>]

\* which worker was invoked, in which cycle, with what
Invocation(c) == <<c.worker, c.iteration, c.current_date, c.input>>

\* how the run of thread s ended, whatever its session id
FinalOutcome(s) ==
    <<frame[s].pc, frame[s].exc,
      [x \in DOMAIN frame[s].result \ {"session_id"} |-> frame[s].result[x]]>>

\* C34: a progress event that cannot be published (no transport, or the
\* transport's emit raises) is dropped without raising to the orchestrator, and
\* the pipeline goes on as if it had been published: two runs of the same
\* submission whose workers answer the same invoke the same workers with the
\* same inputs in the same order and end with the same outcome, whichever of
\* their events were published
C34_EmitNeverAltersPipeline ==
    \A s \in Threads, t \in Threads :
        /\ frame[s].exc \notin EmitFailures
        /\ \A k \in 1..Min(Len(calls[s]), Len(calls[t])) :
              WorkerOutcomes(s, k - 1) = WorkerOutcomes(t, k - 1)
                  => Invocation(calls[s][k]) = Invocation(calls[t][k])
        /\ ( /\ Returned(s) /\ Returned(t)
             /\ Len(calls[s]) = Len(calls[t])
             /\ WorkerOutcomes(s, Len(calls[s])) = WorkerOutcomes(t, Len(calls[t])) )
              => FinalOutcome(s) = FinalOutcome(t)

\* a run without a transport published nothing, a second run whose transport
\* broke on the way published only its first events, and both went through a
\* backtrack to the same successful end
C34_Witness ==
    /\ Returned(1) /\ Returned(2)
    /\ socketio_instance = Broken
    /\ events[1] = << >>
    /\ Len(events[2]) \in 1..3
    /\ Len(calls[1]) = 5
    /\ Len(calls[2]) = 5
    /\ [i \in 1..5 |-> Invocation(calls[1][i])] = [i \in 1..5 |-> Invocation(calls[2][i])]
    /\ frame[1].result.status = "success"
    /\ frame[2].result.status = "success"

----------------------------------------------------------------------------
(* C35, C36 *)

\* a proxy process started with one of the configured retry counts
InitConfigured == \E n \in ConfiguredRetries : InitOf(Connected, NewRalfCallWith(n))

SpecConfig == InitConfigured /\ [][NextRetry]_vars

\* C35: every return of call_ralf_with_retry yields exactly one of response and
\* error: a response with error None, or an error with response None, for every
\* configured value of MAX_RETRIES and every sequence of upstream outcomes
C35_ExactlyOneOfResponseAndError ==
    ralf.pc = "returned" =>
        \/ ralf.response # NoResponse /\ ralf.error = NoError
        \/ ralf.response = NoResponse /\ ralf.error # NoError

\* the call has made all its attempts
Exhausted == Len(RequestsSent) >= 1 /\ Len(RequestsSent) = ralf.max_retries

\* C36: no backoff delay is slept after the final attempt: a call that exhausts
\* its MAX_RETRIES attempts has slept exactly MAX_RETRIES - 1 times, once between
\* each pair of consecutive attempts, and returns right after the last failed
\* attempt
C36_NoSleepAfterLastAttempt ==
    Exhausted =>
        /\ Len(DelaysSlept) = ralf.max_retries - 1
        /\ Len(ralf.log) = 2 * ralf.max_retries - 1
        /\ \A i \in DOMAIN ralf.log :
              /\ ralf.log[i].kind = IF i % 2 = 1 THEN "request" ELSE "sleep"
              /\ ralf.log[i].attempt = (i - 1) \div 2
        /\ ralf.pc \in {"backoff", "loop", "returned"}

\* a call with the default configuration has returned the last error after five
\* failed attempts and four sleeps
C36_Witness ==
    /\ ralf.pc = "returned"
    /\ ralf.max_retries = MAX_RETRIES
    /\ Len(RequestsSent) = MAX_RETRIES
    /\ \A i \in DOMAIN RequestsSent : Retryable(RequestsSent[i])
    /\ Len(DelaysSlept) = MAX_RETRIES - 1
    /\ ralf.error # NoError
    /\ ralf.log[Len(ralf.log)].kind = "request"

----------------------------------------------------------------------------
(* C37 *)

\* C37: for every session that has both a registry entry with a terminal status
\* and a cached result, the registry status equals the status of the cached
\* result
C37_RegistryAgreesWithCache ==
    \A s \in DOMAIN active_sessions \cap DOMAIN results_cache :
        active_sessions[s].status \in {"success", "error"}
            => active_sessions[s].status = results_cache[s].status

----------------------------------------------------------------------------
(* C38 *)

SpecSearch == Init /\ [][NextSearch]_vars

\* the backend call failed: it raised, answered with an HTTP error status, or its
\* body is not JSON or has no 'results' field
BackendFailed(o) ==
    \/ o.raised # ""
    \/ o.status_code >= 400
    \/ ~o.body.json
    \/ ~o.body.has_results

\* C38: NewsSearchTool._run never raises: for every outcome of the backend call
\* (timeout, connection error, HTTP error status, body without a 'results'
\* field, any other exception) it returns a result whose status is error and
\* whose results list is empty, and it returns status success only when the
\* backend answered successfully with a 'results' field
C38_SearchNeverRaises ==
    /\ search.pc # "raised"
    /\ search.pc = "returned" =>
          /\ search.result.status \in {"success", "error"}
          /\ search.result.status = "error" => search.result.results = << >>
          /\ BackendFailed(search.outcome) => search.result.status = "error"
          /\ search.result.status = "success" =>
                /\ search.outcome.raised = ""
                /\ search.outcome.status_code < 400
                /\ search.outcome.body.json
                /\ search.outcome.body.kind = "dict"
                /\ search.outcome.body.has_results
                /\ Len(search.result.results) = Len(search.outcome.body.results)

\* the backend answered 200 with a body that is not JSON, and the call has
\* returned an error with no results
C38_Witness ==
    /\ search.pc = "returned"
    /\ search.outcome.raised = ""
    /\ search.outcome.status_code = 200
    /\ ~search.outcome.body.json
    /\ search.result = InternalErrorResult("JSONDecodeError")

====
